---------------------------- MODULE Spec2Model ----------------------------
(***************************************************************************)
(* Model of src/streamlit1.py: the census enrichment pipeline of the       *)
(* demographics page (geocode -> tract ACS -> county ACS -> join, with    *)
(* parquet cache files, st.session_state flags and st.cache_data memos)    *)
(* and the unified filter get_unified_data.                                *)
(*                                                                         *)
(* One script run (a Streamlit rerun) is one action.  A run is modelled as *)
(* the sequence of its statements: every stage operator takes the "world" *)
(* reached so far (session state, files, memos, what the run did) and     *)
(* returns the set of worlds the stage can leave, one per outcome of the   *)
(* external calls and file reads it performs.                              *)
(***************************************************************************)
EXTENDS Integers, Sequences, FiniteSets, TLC

VARIABLES
    stores,       \* data['stores']: the store table
    ss,           \* st.session_state of the current browser session
    files,        \* the parquet cache files under data/
    memo,         \* the st.cache_data memos of the three fetch functions
    obs,          \* what the last run of the script did and rendered
    failedReads,  \* history: the cache files whose read raised in this
                  \* session and whose stage has not been run since
    data,         \* load_data(): the daily, sets and items tables
    year,         \* the sidebar's year selection (None for "All Years")
    months,       \* the sidebar's month selection
    unified,      \* the result of get_unified_data(data, year, months)
    report        \* what the last run of a report page computed and showed

pvars == <<stores, ss, files, memo, obs, failedReads>>
fvars == <<data, year, months, unified>>
rvars == <<report>>
vars == <<stores, ss, files, memo, obs, failedReads, data, year, months, unified, report>>

-----------------------------------------------------------------------------
(* Bounds and value universes *)

MaxStores == 2
MaxSets == 2
MaxItems == 2
MaxDaily == 2

\* (LATITUDE, LONGITUDE) pairs of the store table
Coords == {"A", "B"}

\* a polars null / Python None
NULL == "null"

\* what the geocoder answers for a coordinate when the call succeeds
GeoOf(c) ==
    IF c = "A" THEN [STATE |-> "16", COUNTY |-> "001", TRACT |-> "000100"]
               ELSE [STATE |-> "16", COUNTY |-> "005", TRACT |-> "000200"]

\* the outcomes of one HTTP call
CallOutcomes == {"ok", "fail"}

\* geocode_store's except branch
NullGeo == [STATE |-> NULL, COUNTY |-> NULL, TRACT |-> NULL]

\* what the ACS API answers for a tract when the call succeeds: the values of
\* B01003_001E (population) and B19019_001E (income); the API reports null
\* for a variable it has no estimate for
AcsOf(t) ==
    IF t.TRACT = "000100" THEN [B01003_001E |-> "4000", B19019_001E |-> "60000"]
                          ELSE [B01003_001E |-> NULL, B19019_001E |-> "50000"]

\* the frame fetch_county_acs builds from a successful bulk response
CountyDF == "all_counties"

Buttons == {"geocode", "tract", "county", "clear"}

-----------------------------------------------------------------------------
(* Session state, files and memos are functions whose DOMAIN is the set of  *)
(* keys present: "k in st.session_state", os.path.exists(f) and a memo hit *)
(* are all k \in DOMAIN.                                                   *)

Has(f, k) == k \in DOMAIN f
Put(f, k, v) == (k :> v) @@ f
Del(f, ks) == [k \in DOMAIN f \ ks |-> f[k]]
Only(f, ks) == [k \in DOMAIN f \cap ks |-> f[k]]
Empty == <<>>

SessionKeys == {"tract_geocoded", "tract_df", "acs_tract_fetched",
                "acs_tract_df", "county_acs_fetched", "county_acs_df"}

CacheFiles == {"census_tract_geocoded", "census_tract_acs", "census_county_acs"}

\* st.session_state.get(k, False)
Get(s, k) == IF Has(s, k) THEN s[k] ELSE FALSE

\* what a run has done so far
NoObs ==
    [page |-> "none", pressed |-> "none", error |-> "none",
     rendered |-> {}, shown |-> {}, readErrors |-> {},
     geoLoop |-> FALSE, geoCalls |-> {}, geoFailed |-> {},
     acsLoop |-> FALSE, acsGate |-> FALSE, acsRequested |-> <<>>,
     acsCalls |-> {}, acsFailed |-> {},
     countyFetch |-> FALSE, countyGate |-> FALSE, countyCalled |-> FALSE,
     countyFailed |-> FALSE, countyBefore |-> <<>>,
     joinReached |-> FALSE, joinMissing |-> {}, joinDone |-> FALSE,
     stores_with_perf |-> <<>>, valid_stores |-> <<>>,
     cleared |-> FALSE, deleted |-> {}, prevCleared |-> FALSE,
     refetch |-> {},
     unified_calls |-> 0]

\* st.button(label, disabled=d): the element is sent to the page with its
\* disabled flag; the call returns the click that started this run
Render(w, b, disabled) ==
    [w EXCEPT !.obs.rendered = @ \cup {b},
              !.obs.shown = IF disabled THEN @ ELSE @ \cup {b}]

Raise(w, e) == [w EXCEPT !.obs.error = e]

-----------------------------------------------------------------------------
(* Geocode stage *)

\* geocode_store's body on a memo miss: the HTTP call and its except branch
geocode_store(c, outcome) ==
    IF outcome = "ok"
    THEN [STATE |-> GeoOf(c).STATE, COUNTY |-> GeoOf(c).COUNTY,
          TRACT |-> GeoOf(c).TRACT]
    ELSE NullGeo

\* A STORE_ID cell is a value of its column's dtype: an Int64 n, a Float64
\* whole.tenths, or a Utf8 text
IntCell(n) == [dtype |-> "Int64", value |-> n]
FloatCell(n) == [dtype |-> "Float64", whole |-> n, tenths |-> 0]
TextCell(t) == [dtype |-> "Utf8", value |-> t]

\* the integers whose decimal text the parser is asked about
IdNumbers == 0..9

\* cast(pl.Int64), strict: an integer is kept, a float is truncated, a text
\* is parsed as a decimal integer and the cast raises when it is not one
cast_Int64(cell) ==
    CASE cell.dtype = "Int64" -> [ok |-> TRUE, value |-> cell.value]
      [] cell.dtype = "Float64" -> [ok |-> TRUE, value |-> cell.whole]
      [] cell.dtype = "Utf8" ->
           LET hits == {n \in IdNumbers : ToString(n) = cell.value}
           IN  IF hits = {} THEN [ok |-> FALSE, value |-> 0]
               ELSE [ok |-> TRUE, value |-> CHOOSE n \in hits : TRUE]

\* cast(pl.Int64).cast(pl.Utf8) of a cell the first cast accepts
cast_Int64_Utf8(cell) == ToString(cast_Int64(cell).value)

\* the casts of a column raise when the cast of one of its cells does
cast_raises(rows) == \E i \in DOMAIN rows : ~ cast_Int64(rows[i].STORE_ID).ok

\* stores_df: STORE_ID cast to Int64, then to Utf8
stores_df(st) ==
    [i \in DOMAIN st |->
        [STORE_ID |-> cast_Int64_Utf8(st[i].STORE_ID), COORD |-> st[i].COORD]]

\* mutant: the cached table is loaded but the flag is left False
GeocodeCacheLoad_FlagNotSet(w) ==
    IF Has(w.ss, "tract_geocoded") THEN {w}
    ELSE IF Has(w.files, "census_tract_geocoded")
    THEN { [w EXCEPT !.ss = Put(Put(@, "tract_df", w.files["census_tract_geocoded"]),
                                "tract_geocoded", FALSE)],
           [w EXCEPT !.ss = Put(@, "tract_geocoded", FALSE),
                     !.obs.readErrors = @ \cup {"census_tract_geocoded"}] }
    ELSE { [w EXCEPT !.ss = Put(@, "tract_geocoded", FALSE)] }

\* os.path.exists / pl.read_parquet of the geocode cache, inside try/except
GeocodeCacheLoad(w) ==
    IF Has(w.ss, "tract_geocoded") THEN {w}
    ELSE IF Has(w.files, "census_tract_geocoded")
    THEN { [w EXCEPT !.ss = Put(Put(@, "tract_df", w.files["census_tract_geocoded"]),
                                "tract_geocoded", TRUE)],
           \* read_parquet raised
           [w EXCEPT !.ss = Put(@, "tract_geocoded", FALSE),
                     !.obs.readErrors = @ \cup {"census_tract_geocoded"}] }
    ELSE { [w EXCEPT !.ss = Put(@, "tract_geocoded", FALSE)] }

\* mutant: a store whose geocoding failed gets no row
TractData_SkipsFailed(sdf, gm) ==
    LET ok == SelectSeq(sdf, LAMBDA r : gm[r.COORD] # NullGeo)
    IN  [i \in DOMAIN ok |->
            [STORE_ID |-> ok[i].STORE_ID,
             STATEFP  |-> gm[ok[i].COORD].STATE,
             COUNTYFP |-> gm[ok[i].COORD].COUNTY,
             TRACT    |-> gm[ok[i].COORD].TRACT]]

\* the rows the loop appends, given the memo after the loop
TractData(sdf, gm) ==
    [i \in DOMAIN sdf |->
        [STORE_ID |-> sdf[i].STORE_ID,
         STATEFP  |-> gm[sdf[i].COORD].STATE,
         COUNTYFP |-> gm[sdf[i].COORD].COUNTY,
         TRACT    |-> gm[sdf[i].COORD].TRACT]]

\* the "Geocode Stores" button and its loop
GeocodeButton(w, st) ==
    LET w1  == Render(w, "geocode", w.ss["tract_geocoded"])
        sdf == stores_df(st)
        need == {sdf[i].COORD : i \in DOMAIN sdf} \ DOMAIN w.memo.geo
    IN  IF w.obs.pressed # "geocode" THEN {w1}
        ELSE { LET gm == [c \in need |-> geocode_store(c, f[c])] @@ w.memo.geo
                   td == TractData(sdf, gm)
               IN  [w1 EXCEPT
                      !.memo.geo = gm,
                      !.ss = Put(Put(@, "tract_df", td), "tract_geocoded", TRUE),
                      !.files = Put(@, "census_tract_geocoded", td),
                      !.obs.geoLoop = TRUE,
                      !.obs.geoCalls = need,
                      !.obs.geoFailed =
                          {i \in DOMAIN sdf :
                              IF sdf[i].COORD \in need
                              THEN f[sdf[i].COORD] = "fail"
                              ELSE w.memo.geo[sdf[i].COORD] = NullGeo}]
             : f \in [need -> CallOutcomes] }

-----------------------------------------------------------------------------
(* Tract ACS stage *)

Range(q) == {q[i] : i \in DOMAIN q}

\* the rows of a sequence of frames, one after the other
RECURSIVE Concat(_)
Concat(qs) == IF qs = <<>> THEN <<>> ELSE Head(qs) \o Concat(Tail(qs))

\* the orders a set of rows can come in
Orders(S) == {q \in [1..Cardinality(S) -> S] : Range(q) = S}

\* unique_tracts: filter the three columns for non-null, select them, unique();
\* unique() does not keep the input order, so any order is possible
unique_tracts(tract_df) ==
    Orders({ [STATEFP |-> r.STATEFP, COUNTYFP |-> r.COUNTYFP, TRACT |-> r.TRACT]
             : r \in {x \in Range(tract_df) :
                        x.STATEFP # NULL /\ x.COUNTYFP # NULL /\ x.TRACT # NULL} })

None == [isNone |-> TRUE]

\* the outcomes of the tract call: a row of values, a response that holds
\* the header only, an exception
TractOutcomes == {"ok", "empty", "fail"}

\* fetch_tract_acs's body on a memo miss
fetch_tract_acs(t, outcome) ==
    IF outcome = "ok" THEN [isNone |-> FALSE, values |-> AcsOf(t)] ELSE None

\* mutant: the except branch marks the stage complete
TractCacheLoad_FlagOnError(w) ==
    IF Has(w.ss, "acs_tract_fetched") THEN {w}
    ELSE IF Has(w.files, "census_tract_acs")
    THEN { [w EXCEPT !.ss = Put(Put(@, "acs_tract_df", w.files["census_tract_acs"]),
                                "acs_tract_fetched", TRUE)],
           [w EXCEPT !.ss = Put(@, "acs_tract_fetched", TRUE),
                     !.obs.readErrors = @ \cup {"census_tract_acs"}] }
    ELSE { [w EXCEPT !.ss = Put(@, "acs_tract_fetched", FALSE)] }

\* os.path.exists / pl.read_parquet of the tract ACS cache, inside try/except
TractCacheLoad(w) ==
    IF Has(w.ss, "acs_tract_fetched") THEN {w}
    ELSE IF Has(w.files, "census_tract_acs")
    THEN { [w EXCEPT !.ss = Put(Put(@, "acs_tract_df", w.files["census_tract_acs"]),
                                "acs_tract_fetched", TRUE)],
           [w EXCEPT !.ss = Put(@, "acs_tract_fetched", FALSE),
                     !.obs.readErrors = @ \cup {"census_tract_acs"}] }
    ELSE { [w EXCEPT !.ss = Put(@, "acs_tract_fetched", FALSE)] }

\* mutant: a failed tract is appended with null values instead of omitted
AcsResults_KeepsFailed(u, am) ==
    [i \in DOMAIN u |->
        [STATEFP |-> u[i].STATEFP, COUNTYFP |-> u[i].COUNTYFP,
         TRACT |-> u[i].TRACT,
         B01003_001E |-> IF am[u[i]].isNone THEN NULL
                         ELSE am[u[i]].values.B01003_001E,
         B19019_001E |-> IF am[u[i]].isNone THEN NULL
                         ELSE am[u[i]].values.B19019_001E]]

\* acs_results: one dict per tract whose acs_values is truthy, in loop order
AcsResults(u, am) ==
    LET ok == SelectSeq(u, LAMBDA t : ~ am[t].isNone)
    IN  [i \in DOMAIN ok |->
            [STATEFP |-> ok[i].STATEFP, COUNTYFP |-> ok[i].COUNTYFP,
             TRACT |-> ok[i].TRACT,
             B01003_001E |-> am[ok[i]].values.B01003_001E,
             B19019_001E |-> am[ok[i]].values.B19019_001E]]

\* the "Fetch Tract ACS Data" button and its loop
TractButton(w) ==
    LET w1 == Render(w, "tract", w.ss["acs_tract_fetched"])
    IN  IF w.obs.pressed # "tract" THEN {w1}
        ELSE UNION {
               LET need == Range(u) \ DOMAIN w.memo.acs
               IN  { LET am  == [t \in need |-> fetch_tract_acs(t, f[t])] @@ w.memo.acs
                         res == AcsResults(u, am)
                     IN  [w1 EXCEPT
                            !.memo.acs = am,
                            !.ss = Put(Put(@, "acs_tract_df", res),
                                       "acs_tract_fetched", TRUE),
                            !.files = Put(@, "census_tract_acs", res),
                            !.obs.acsLoop = TRUE,
                            !.obs.acsGate = w.ss["tract_geocoded"],
                            !.obs.acsRequested = u,
                            !.obs.acsCalls = need,
                            !.obs.acsFailed =
                                {t \in Range(u) :
                                    IF t \in need THEN f[t] # "ok"
                                    ELSE w.memo.acs[t].isNone}]
                   : f \in [need -> TractOutcomes] }
             : u \in unique_tracts(w.ss["tract_df"]) }

\* lines 849-914: the stage is gated on the geocode flag and table
TractStage(w) ==
    IF w.obs.error # "none" THEN {w}
    ELSE IF ~ (w.ss["tract_geocoded"] /\ Has(w.ss, "tract_df")) THEN {w}
    ELSE UNION { TractButton(w1) : w1 \in TractCacheLoad(w) }

-----------------------------------------------------------------------------
(* County ACS stage *)

\* fetch_county_acs's body on a memo miss: the frame, or None from the
\* except branch
fetch_county_acs(outcome) ==
    IF outcome = "ok" THEN [isNone |-> FALSE, df |-> CountyDF] ELSE None

\* os.path.exists / pl.read_parquet of the county cache, inside try/except
CountyCacheLoad(w) ==
    IF Has(w.ss, "county_acs_fetched") THEN {w}
    ELSE IF Has(w.files, "census_county_acs")
    THEN { [w EXCEPT !.ss = Put(Put(@, "county_acs_df", w.files["census_county_acs"]),
                                "county_acs_fetched", TRUE)],
           [w EXCEPT !.ss = Put(@, "county_acs_fetched", FALSE),
                     !.obs.readErrors = @ \cup {"census_county_acs"}] }
    ELSE { [w EXCEPT !.ss = Put(@, "county_acs_fetched", FALSE)] }

\* mutant: the result is stored and the stage marked complete without the
\* None test
CountyStore_NoNoneTest(w, county_df) ==
    LET df == IF county_df.isNone THEN NULL ELSE county_df.df
    IN  [w EXCEPT !.ss = Put(Put(@, "county_acs_df", df),
                             "county_acs_fetched", TRUE),
                  !.files = Put(@, "census_county_acs", df)]

\* "if county_df is not None": assign, write the cache, set the flag
CountyStore(w, county_df) ==
    IF county_df.isNone THEN w
    ELSE [w EXCEPT !.ss = Put(Put(@, "county_acs_df", county_df.df),
                              "county_acs_fetched", TRUE),
                   !.files = Put(@, "census_county_acs", county_df.df)]

\* the "Fetch County ACS Data" button
CountyButton(w) ==
    LET w1 == Render(w, "county", w.ss["county_acs_fetched"])
        hit == Has(w.memo.county, "all")
    IN  IF w.obs.pressed # "county" THEN {w1}
        ELSE { LET county_df == IF hit THEN w.memo.county["all"]
                                ELSE fetch_county_acs(o)
                   w2 == [w1 EXCEPT
                            !.memo.county = Put(@, "all", county_df),
                            !.obs.countyFetch = TRUE,
                            !.obs.countyGate = Get(w.ss, "acs_tract_fetched"),
                            !.obs.countyCalled = ~ hit,
                            !.obs.countyFailed = county_df.isNone,
                            !.obs.countyBefore =
                                <<Only(w.ss, {"county_acs_fetched", "county_acs_df"}),
                                  Only(w.files, {"census_county_acs"})>>]
               IN  CountyStore(w2, county_df)
             : o \in IF hit THEN {"ok"} ELSE CallOutcomes }

-----------------------------------------------------------------------------
(* Unified filter, lines 105-167 *)

\* a nullable value is <<>> (null) or <<v>>
Null == <<>>
Some(v) == <<v>>

\* the calendar years and months of the data
Years == {2022, 2023}
MonthsU == {1, 2}

\* polars' three-valued logic: a comparison with null is null, and
\* filter() keeps the rows whose predicate is true
Eq3(cell, v) == IF cell = Null THEN "null" ELSE IF cell[1] = v THEN "true" ELSE "false"
IsIn3(cell, S) == IF cell = Null THEN "null" ELSE IF cell[1] \in S THEN "true" ELSE "false"
And3(a, b) ==
    IF a = "false" \/ b = "false" THEN "false"
    ELSE IF a = "true" /\ b = "true" THEN "true" ELSE "null"
Filter(rows, P(_)) == SelectSeq(rows, LAMBDA r : P(r) = "true")

\* lines 112-122
filtered_daily_of(daily, year_filter, month_filter) ==
    IF year_filter = Null
    THEN Filter(daily, LAMBDA r : IsIn3(r.CALENDAR_MONTH, month_filter))
    ELSE Filter(daily, LAMBDA r : And3(Eq3(r.CALENDAR_YEAR, year_filter[1]),
                                       IsIn3(r.CALENDAR_MONTH, month_filter)))

\* dt.year() / dt.month() of a nullable timestamp
DtYear(dt) == IF dt = Null THEN Null ELSE Some(dt[1].year)
DtMonth(dt) == IF dt = Null THEN Null ELSE Some(dt[1].month)

\* lines 123-126: with_columns adds (or replaces) the columns year and month
sets_with_date(sets) ==
    [columns |-> sets.columns \cup {"year", "month"},
     rows |-> [i \in DOMAIN sets.rows |->
                 ("year" :> DtYear(sets.rows[i].DATE_TIME)) @@
                 ("month" :> DtMonth(sets.rows[i].DATE_TIME)) @@ sets.rows[i]]]

\* lines 129-137
filter_sets(swd, year_filter, month_filter) ==
    [columns |-> swd.columns,
     rows |-> IF year_filter = Null
              THEN Filter(swd.rows, LAMBDA r : IsIn3(r.month, month_filter))
              ELSE Filter(swd.rows, LAMBDA r : And3(Eq3(r.year, year_filter[1]),
                                                    IsIn3(r.month, month_filter)))]

\* mutant: the derived columns are left in the frame
drop_KeepsDerived(frame, cols) == frame

\* line 139: DataFrame.drop
drop(frame, cols) ==
    [columns |-> frame.columns \ cols,
     rows |-> [i \in DOMAIN frame.rows |-> Del(frame.rows[i], cols)]]

\* line 142: the distinct TRANSACTION_SET_ID values of a frame
valid_txn_ids_of(frame) == {frame.rows[i].TRANSACTION_SET_ID : i \in DOMAIN frame.rows}

\* mutant: a left join keeps every item
inner_join_KeepsAll(items, ids) == items

\* lines 145-149: inner join of the items against the (unique) ids keeps the
\* items whose id is among them, in item order
inner_join(items, ids) ==
    SelectSeq(items, LAMBDA r : r.TRANSACTION_SET_ID \in ids)

\* pl.col(c).sum(): nulls are skipped; the sum of no value is 0 or, in older
\* polars, null: None stands for both here and "or 0" maps it to 0
RECURSIVE SumNonNull(_, _)
SumNonNull(rows, c) ==
    IF rows = <<>> THEN 0
    ELSE (IF Head(rows)[c] = Null THEN 0 ELSE Head(rows)[c][1])
         + SumNonNull(Tail(rows), c)

col_sum(rows, c) ==
    IF \A i \in DOMAIN rows : rows[i][c] = Null THEN Null
    ELSE Some(SumNonNull(rows, c))

\* "x or 0"
or_zero(x) == IF x = Null \/ x[1] = 0 THEN 0 ELSE x[1]

\* mutant: the transactions are counted before the period filter
total_transactions_Unfiltered(filtered_sets, sets) == Len(sets.rows)

\* line 153
total_transactions_of(filtered_sets, sets) == Len(filtered_sets.rows)

\* lines 105-163
get_unified_data(_data_dict, year_filter, month_filter) ==
    LET filtered_sets == drop(filter_sets(sets_with_date(_data_dict.sets),
                                          year_filter, month_filter),
                              {"year", "month"})
        valid_txn_ids == valid_txn_ids_of(filtered_sets)
    IN  [filtered_daily |-> filtered_daily_of(_data_dict.daily, year_filter, month_filter),
         filtered_sets |-> filtered_sets,
         filtered_items |-> inner_join(_data_dict.items, valid_txn_ids),
         total_revenue |-> or_zero(col_sum(filtered_sets.rows, "GRAND_TOTAL_AMOUNT")),
         total_transactions |-> total_transactions_of(filtered_sets, _data_dict.sets),
         unique_stores |->
             Cardinality({filtered_sets.rows[i].STORE_ID : i \in DOMAIN filtered_sets.rows})]

-----------------------------------------------------------------------------
(* Enrichment join, lines 944-1004 *)

\* how="left" joins keep every row of the left frame, once per matching row
\* of the right frame and once, with nulls, when there is none; a null key
\* matches nothing.  The rows are held in the left frame's order.

\* lines 945-948
stores_tract_of(sdf, tract_df) ==
    Concat([i \in DOMAIN sdf |->
        LET m == SelectSeq(tract_df, LAMBDA t : t.STORE_ID = sdf[i].STORE_ID)
        IN  IF m = <<>>
            THEN << [STORE_ID |-> sdf[i].STORE_ID, COORD |-> sdf[i].COORD,
                     STATEFP |-> NULL, COUNTYFP |-> NULL, TRACT |-> NULL] >>
            ELSE [j \in DOMAIN m |->
                     [STORE_ID |-> sdf[i].STORE_ID, COORD |-> sdf[i].COORD,
                      STATEFP |-> m[j].STATEFP, COUNTYFP |-> m[j].COUNTYFP,
                      TRACT |-> m[j].TRACT]]])

\* lines 951-958
stores_tract_acs_of(st_rows, acs_tract_df) ==
    Concat([i \in DOMAIN st_rows |->
        LET r == st_rows[i]
            m == SelectSeq(acs_tract_df, LAMBDA a :
                     /\ r.STATEFP # NULL /\ r.COUNTYFP # NULL /\ r.TRACT # NULL
                     /\ a.STATEFP = r.STATEFP /\ a.COUNTYFP = r.COUNTYFP
                     /\ a.TRACT = r.TRACT)
        IN  IF m = <<>>
            THEN << ("B01003_001E" :> NULL) @@ ("B19019_001E" :> NULL) @@ r >>
            ELSE [j \in DOMAIN m |->
                     ("B01003_001E" :> m[j].B01003_001E) @@
                     ("B19019_001E" :> m[j].B19019_001E) @@ r]])

\* lines 961-979: the bulk county frame has one row per (state, county)
stores_enriched_of(sta_rows) ==
    [i \in DOMAIN sta_rows |->
        ("county_NAME" :>
            IF sta_rows[i].STATEFP # NULL /\ sta_rows[i].COUNTYFP # NULL
            THEN sta_rows[i].STATEFP \o sta_rows[i].COUNTYFP ELSE NULL)
        @@ sta_rows[i]]

\* lines 983-991: one row per STORE_ID of the filtered daily rows
store_perf_of(filtered_daily) ==
    LET key(r) == cast_Int64_Utf8(r.STORE_ID)
        of(k) == SelectSeq(filtered_daily, LAMBDA r : key(r) = k)
    IN  { [STORE_ID |-> k,
           revenue |-> SumNonNull(of(k), "TOTAL_REVENUE_AMOUNT"),
           transactions |-> SumNonNull(of(k), "TRANSACTION_COUNT")]
          : k \in {key(filtered_daily[i]) : i \in DOMAIN filtered_daily} }

\* lines 993-996
stores_with_perf_of(se_rows, store_perf) ==
    Concat([i \in DOMAIN se_rows |->
        LET m == {g \in store_perf : g.STORE_ID = se_rows[i].STORE_ID}
        IN  IF m = {}
            THEN << ("revenue" :> Null) @@ ("transactions" :> Null) @@ se_rows[i] >>
            ELSE LET g == CHOOSE g \in m : TRUE
                 IN  << ("revenue" :> Some(g.revenue)) @@
                        ("transactions" :> Some(g.transactions)) @@ se_rows[i] >>])

\* lines 1001-1004
valid_stores_of(swp) ==
    SelectSeq(swp, LAMBDA r : r.B01003_001E # NULL /\ r.B19019_001E # NULL)

\* st.session_state.k raises AttributeError for a missing key; a join on a
\* column the frame does not have raises ColumnNotFoundError.  A frame built
\* from an empty list of rows has no columns.
EnrichmentJoin(w) ==
    LET w1 == [w EXCEPT !.obs.joinReached = TRUE,
                        !.obs.joinMissing =
                            {"tract_df", "acs_tract_df", "county_acs_df"} \ DOMAIN w.ss]
    IN  IF ~ Has(w.ss, "tract_df") THEN Raise(w1, "AttributeError")
        ELSE IF w.ss["tract_df"] = <<>> THEN Raise(w1, "ColumnNotFoundError")
        ELSE IF ~ Has(w.ss, "acs_tract_df") THEN Raise(w1, "AttributeError")
        ELSE IF w.ss["acs_tract_df"] = <<>> THEN Raise(w1, "ColumnNotFoundError")
        ELSE IF ~ Has(w.ss, "county_acs_df") THEN Raise(w1, "AttributeError")
        \* line 985
        ELSE IF cast_raises(w.filtered_daily) THEN Raise(w1, "InvalidOperationError")
        ELSE LET swp == stores_with_perf_of(
                            stores_enriched_of(
                                stores_tract_acs_of(
                                    stores_tract_of(w.stores_df, w.ss["tract_df"]),
                                    w.ss["acs_tract_df"])),
                            store_perf_of(w.filtered_daily))
             IN  [w1 EXCEPT !.obs.joinDone = TRUE,
                            !.obs.stores_with_perf = swp,
                            !.obs.valid_stores = valid_stores_of(swp)]

\* mutant: the county stage gated on the geocode flag instead of the tract flag
CountyStage_GatedOnGeocode(w) ==
    IF w.obs.error # "none" THEN {w}
    ELSE IF ~ Get(w.ss, "tract_geocoded") THEN {w}
    ELSE { EnrichmentJoin(w2) :
             w2 \in UNION { CountyButton(w1) : w1 \in CountyCacheLoad(w) } }

\* lines 916-1132: the county stage and the join share one gate
CountyStage(w) ==
    IF w.obs.error # "none" THEN {w}
    ELSE IF ~ Get(w.ss, "acs_tract_fetched") THEN {w}
    ELSE { EnrichmentJoin(w2) :
             w2 \in UNION { CountyButton(w1) : w1 \in CountyCacheLoad(w) } }

-----------------------------------------------------------------------------
(* Cache management, lines 1136-1165 *)

\* mutant: the files are removed but the session keys are kept
ClearCensusCache_KeepsSession(w) ==
    IF w.obs.error # "none" THEN w
    ELSE LET w1 == Render(w, "clear", FALSE)
         IN  IF w.obs.pressed # "clear" THEN w1
             ELSE [w1 EXCEPT !.files = Del(@, CacheFiles),
                             !.obs.cleared = TRUE,
                             !.obs.deleted = DOMAIN w.files \cap CacheFiles]

ClearCensusCache(w) ==
    IF w.obs.error # "none" THEN w
    ELSE LET w1 == Render(w, "clear", FALSE)
         IN  IF w.obs.pressed # "clear" THEN w1
             ELSE [w1 EXCEPT !.files = Del(@, CacheFiles),
                             !.ss = Del(@, SessionKeys),
                             !.obs.cleared = TRUE,
                             !.obs.deleted = DOMAIN w.files \cap CacheFiles]

-----------------------------------------------------------------------------
(* One run of the script on the demographics page *)

DemographicsPage(w0, st) ==
    \* line 803
    IF cast_raises(st) THEN { Raise(w0, "InvalidOperationError") }
    ELSE
    { ClearCensusCache(w4) :
        w4 \in UNION { CountyStage(w3) :
          w3 \in UNION { TractStage(w2) :
            w2 \in UNION { GeocodeButton(w1, st) :
              w1 \in GeocodeCacheLoad([w0 EXCEPT !.stores_df = stores_df(st)]) } } } }

\* the cache files a run wrote
Written(o) ==
    {f \in CacheFiles :
        \/ f = "census_tract_geocoded" /\ o.geoLoop
        \/ f = "census_tract_acs" /\ o.acsLoop
        \/ f = "census_county_acs" /\ o.countyFetch /\ ~ o.countyFailed}

\* history: the stages whose fetch has not run since Clear Census Cache was
\* last pressed in this session, as of the end of the run o
Refetch(o) ==
    IF o.cleared THEN {"geocode", "tract", "county"}
    ELSE o.refetch \ ( (IF o.geoLoop THEN {"geocode"} ELSE {})
                       \cup (IF o.acsLoop THEN {"tract"} ELSE {})
                       \cup (IF o.countyFetch THEN {"county"} ELSE {}) )

RunScript(pressed) ==
    \E w \in DemographicsPage(
               [ss |-> ss, files |-> files, memo |-> memo,
                stores_df |-> <<>>,
                filtered_daily |-> get_unified_data(data, year, months).filtered_daily,
                obs |-> [NoObs EXCEPT !.page = "demo", !.pressed = pressed,
                                      !.prevCleared = obs.cleared,
                                      !.refetch = Refetch(obs),
                                      !.unified_calls = 1]],
               stores) :
        /\ ss' = w.ss
        /\ files' = w.files
        /\ memo' = w.memo
        /\ obs' = w.obs
        /\ failedReads' = IF w.obs.cleared THEN {}
                          ELSE (failedReads \cup w.obs.readErrors) \ Written(w.obs)
        \* line 166: every run of the script calls get_unified_data
        /\ unified' = get_unified_data(data, year, months)
        /\ UNCHANGED <<stores, data, year, months, rvars>>

\* a rerun without a button click (a widget change, a browser refresh of
\* the same session)
Rerun == RunScript("none")

\* A click on a button the page shows enabled.  The page is what the last
\* run rendered: a button is drawn with the disabled flag it was given when
\* st.button was called, which is before the body under it runs, so the run
\* that completes a stage leaves that stage's button enabled on the page
\* until the next run.  st.button returns the click whatever disabled flag
\* the new run passes.
PressGeocode == "geocode" \in obs.shown /\ RunScript("geocode")
PressTract == "tract" \in obs.shown /\ RunScript("tract")
PressCounty == "county" \in obs.shown /\ RunScript("county")
PressClear == "clear" \in obs.shown /\ RunScript("clear")

\* a run of one of the other pages: the elif chain of lines 170-696
OtherPage ==
    /\ obs' = [NoObs EXCEPT !.page = "other", !.unified_calls = 1,
                             !.refetch = Refetch(obs)]
    /\ unified' = get_unified_data(data, year, months)
    /\ UNCHANGED <<stores, ss, files, memo, failedReads, data, year, months, rvars>>

\* a new browser session: st.session_state starts empty; files and the
\* st.cache_data memos belong to the server
NewSession ==
    /\ ss # Empty
    /\ ss' = Empty
    /\ obs' = NoObs
    /\ failedReads' = {}
    /\ UNCHANGED <<stores, files, memo, fvars, rvars>>

NoMemo == [geo |-> Empty, acs |-> Empty, county |-> Empty]

\* ttl=7200 of the three st.cache_data memos: two hours after the last
\* fetch every entry has expired (the stages read disjoint memos, so the
\* entries of one stage expiring before another's adds no behaviour of a
\* stage)
ExpireMemo ==
    /\ memo # NoMemo
    /\ memo' = NoMemo
    /\ UNCHANGED <<stores, ss, files, obs, failedReads, fvars, rvars>>

StoreTables ==
    UNION { [1..n -> Coords] : n \in 1..MaxStores }


-----------------------------------------------------------------------------
(* The tables of load_data() and the script's first run *)

\* the columns of the transaction-set table the script reads
SetsColumns == {"TRANSACTION_SET_ID", "STORE_ID", "DATE_TIME", "GRAND_TOTAL_AMOUNT"}

DateTimes == {Null} \cup {Some([year |-> 2022, month |-> 1]), Some([year |-> 2023, month |-> 2])}
Amounts == {Null, Some(3)}

\* transaction-set tables: one row per identifier 1..n
SetsTables ==
    UNION { { [columns |-> SetsColumns,
               rows |-> [i \in 1..n |->
                           [TRANSACTION_SET_ID |-> i, STORE_ID |-> 7 + (i % 2),
                            DATE_TIME |-> d[i], GRAND_TOTAL_AMOUNT |-> a[i]]]]
              : d \in [1..n -> DateTimes], a \in [1..n -> Amounts] }
            : n \in 0..MaxSets }

\* item tables: some items of the transaction sets 1 and 2 and of a
\* transaction set (9) that is not in the sets table
ItemTables ==
    UNION { { [i \in 1..n |-> [TRANSACTION_SET_ID |-> t[i], ITEM |-> i]]
              : t \in [1..n -> {1, 2, 9}] }
            : n \in 0..MaxItems }

DailyTables ==
    UNION { { [i \in 1..n |-> [CALENDAR_YEAR |-> Some(p[i][1]),
                               CALENDAR_MONTH |-> Some(p[i][2]), ROW |-> i]]
              : p \in [1..n -> {<<2022, 1>>, <<2023, 2>>}] }
            : n \in 0..MaxDaily }

\* the script's first run: "All Years", all months
FilterInit ==
    /\ \E s \in SetsTables :
         \/ \E it \in ItemTables : data = [daily |-> <<>>, sets |-> s, items |-> it]
         \/ \E d \in DailyTables : data = [daily |-> d, sets |-> s, items |-> <<>>]
    /\ year = Null
    /\ months = MonthsU
    /\ unified = get_unified_data(data, year, months)

\* the year selectbox changes: the script runs again
SelectYear ==
    \E y \in {Null} \cup {Some(v) : v \in Years} :
        /\ y # year
        /\ year' = y
        /\ unified' = get_unified_data(data, y, months)
        /\ UNCHANGED <<data, months, pvars, rvars>>

\* the month multiselect changes: the script runs again
SelectMonths ==
    \E m \in SUBSET MonthsU :
        /\ m # months
        /\ months' = m
        /\ unified' = get_unified_data(data, year, m)
        /\ UNCHANGED <<data, year, pvars, rvars>>

\* no report page has run
NoReport == [page |-> "none"]

\* the tables are not loaded in the pipeline's specification
NoData == [daily |-> <<>>, sets |-> [columns |-> SetsColumns, rows |-> <<>>], items |-> <<>>]

PipelineInit ==
    /\ stores \in { [i \in DOMAIN t |-> [STORE_ID |-> IntCell(i), COORD |-> t[i]]]
                    : t \in StoreTables }
    /\ ss = Empty
    /\ files = Empty
    /\ memo = NoMemo
    /\ obs = NoObs
    /\ failedReads = {}

Init ==
    /\ PipelineInit
    /\ data = NoData
    /\ year = Null
    /\ months = MonthsU
    /\ unified = get_unified_data(data, year, months)
    /\ report = NoReport

SpecFilterInit ==
    /\ FilterInit
    /\ report = NoReport
    /\ stores = <<>>
    /\ ss = Empty
    /\ files = Empty
    /\ memo = NoMemo
    /\ obs = NoObs
    /\ failedReads = {}

FilterNext ==
    \/ SelectYear
    \/ SelectMonths

SpecFilter == SpecFilterInit /\ [][FilterNext]_vars

Next ==
    \/ Rerun
    \/ PressGeocode
    \/ PressTract
    \/ PressCounty
    \/ PressClear
    \/ OtherPage
    \/ NewSession
    \/ ExpireMemo

Spec == Init /\ [][Next]_vars

-----------------------------------------------------------------------------
(* The enrichment pipeline over the representations of STORE_ID *)

\* how a table writes the identifier n: 42, 42.0, "42", "42.0"
IdForms == {"int", "float", "text", "float_text"}

CellOf(form, n) ==
    CASE form = "int" -> IntCell(n)
      [] form = "float" -> FloatCell(n)
      [] form = "text" -> TextCell(ToString(n))
      [] form = "float_text" -> TextCell(ToString(n) \o ".0")

\* the daily rows of store 1: row j is of month j
EnrichDailyRow(form, j) ==
    [STORE_ID |-> CellOf(form, 1), CALENDAR_YEAR |-> Some(2022),
     CALENDAR_MONTH |-> Some(j), TOTAL_REVENUE_AMOUNT |-> Some(10 * j),
     TRANSACTION_COUNT |-> Some(j), ROW |-> j]

EnrichDailyTables ==
    UNION { { [j \in 1..k |-> EnrichDailyRow(form, j)] : k \in 0..MaxDaily }
            : form \in IdForms }

EnrichInit ==
    /\ \E t \in StoreTables, form \in IdForms :
          stores = [i \in DOMAIN t |-> [STORE_ID |-> CellOf(form, i), COORD |-> t[i]]]
    /\ \E d \in EnrichDailyTables :
          data = [daily |-> d, sets |-> NoData.sets, items |-> <<>>]
    /\ ss = Empty
    /\ files = Empty
    /\ memo = NoMemo
    /\ obs = NoObs
    /\ failedReads = {}
    /\ year = Null
    /\ months = MonthsU
    /\ unified = get_unified_data(data, year, months)
    /\ report = NoReport

EnrichNext ==
    \/ Rerun
    \/ PressGeocode
    \/ PressTract
    \/ PressCounty

SpecEnrich == EnrichInit /\ [][EnrichNext]_vars

-----------------------------------------------------------------------------
(* Top 5 Products Weekly Sales page, lines 236-387 *)

\* pl.col(c) != v and is_not_null() in polars' three-valued logic
Ne3(cell, v) == IF cell = Null THEN "null" ELSE IF cell[1] # v THEN "true" ELSE "false"
NotNull3(cell) == IF cell = Null THEN "false" ELSE "true"

\* line 250: the options of the category multiselect
categories_of(filtered_daily) ==
    {r.CATEGORY[1] : r \in {filtered_daily[i] : i \in
        {j \in DOMAIN filtered_daily : Ne3(filtered_daily[j].CATEGORY, "FUEL") = "true"}}}

\* mutant: the inclusion list applied without the fuel exclusion
category_filtered_NoFuelTest(filtered_daily, selected_categories) ==
    IF selected_categories # {}
    THEN Filter(filtered_daily, LAMBDA r : IsIn3(r.CATEGORY, selected_categories))
    ELSE filtered_daily

\* lines 253-259
category_filtered_of(filtered_daily, selected_categories) ==
    IF selected_categories # {}
    THEN Filter(filtered_daily,
                LAMBDA r : And3(Ne3(r.CATEGORY, "FUEL"),
                                IsIn3(r.CATEGORY, selected_categories)))
    ELSE Filter(filtered_daily, LAMBDA r : Ne3(r.CATEGORY, "FUEL"))

\* a / b on two integer columns is a float division: x/0 is inf, 0/0 is NaN
Div(a, b) ==
    [kind |-> IF b # 0 THEN "num" ELSE IF a = 0 THEN "NaN" ELSE "inf",
     num |-> a, den |-> b]

\* lines 264-268
top5_valid(category_filtered) ==
    Filter(category_filtered,
           LAMBDA r : And3(NotNull3(r.BRAND),
                           And3(NotNull3(r.SKUPOS_DESCRIPTION), NotNull3(r.CATEGORY))))

\* lines 269-277: one row per (BRAND, SKUPOS_DESCRIPTION, CATEGORY)
top5_groups(category_filtered) ==
    LET valid == top5_valid(category_filtered)
        keys == {<<valid[i].BRAND, valid[i].SKUPOS_DESCRIPTION, valid[i].CATEGORY>>
                   : i \in DOMAIN valid}
        of(k) == SelectSeq(valid, LAMBDA r :
                     <<r.BRAND, r.SKUPOS_DESCRIPTION, r.CATEGORY>> = k)
    IN  { [BRAND |-> k[1], SKUPOS_DESCRIPTION |-> k[2], CATEGORY |-> k[3],
           total_revenue |-> SumNonNull(of(k), "TOTAL_REVENUE_AMOUNT"),
           total_units |-> SumNonNull(of(k), "QUANTITY"),
           total_transactions |-> SumNonNull(of(k), "TRANSACTION_COUNT"),
           avg_price |-> Div(SumNonNull(of(k), "TOTAL_REVENUE_AMOUNT"),
                             SumNonNull(of(k), "QUANTITY"))] : k \in keys }

\* group_by() without maintain_order returns the groups in no particular
\* order, so sort(c, descending=True) can leave rows with equal c in any
\* order: the set of the orders it can return
RECURSIVE sort_desc(_, _)
sort_desc(S, c) ==
    IF S = {} THEN {<<>>}
    ELSE LET first == {g \in S : \A h \in S : h[c] <= g[c]}
         IN  UNION { { <<g>> \o q : q \in sort_desc(S \ {g}, c) } : g \in first }

\* mutant: the limit is applied to the unsorted groups
sort_desc_limit_Unsorted(S, c, n) ==
    { SubSeq(q, 1, IF Len(q) < n THEN Len(q) ELSE n) : q \in Orders(S) }

\* lines 278-279: .sort(c, descending=True).limit(n)
sort_desc_limit(S, c, n) ==
    { SubSeq(q, 1, IF Len(q) < n THEN Len(q) ELSE n) : q \in sort_desc(S, c) }

\* line 279
TopN == 5

\* lines 262-280
top5_overall_of(category_filtered) ==
    sort_desc_limit(top5_groups(category_filtered), "total_revenue", TopN)

\* line 288
top5_products_of(top5_overall) ==
    {top5_overall[i].SKUPOS_DESCRIPTION[1] : i \in DOMAIN top5_overall}

\* lines 291-300: one row per (WEEk, SKUPOS_DESCRIPTION, BRAND)
weekly_groups(category_filtered, top5_products) ==
    LET rows == Filter(category_filtered,
                       LAMBDA r : And3(IsIn3(r.SKUPOS_DESCRIPTION, top5_products),
                                       NotNull3(r.WEEk)))
        keys == {<<rows[i].WEEk, rows[i].SKUPOS_DESCRIPTION, rows[i].BRAND>>
                   : i \in DOMAIN rows}
        of(k) == SelectSeq(rows, LAMBDA r :
                     <<r.WEEk, r.SKUPOS_DESCRIPTION, r.BRAND>> = k)
    IN  { [WEEk |-> k[1][1], SKUPOS_DESCRIPTION |-> k[2], BRAND |-> k[3],
           weekly_revenue |-> SumNonNull(of(k), "TOTAL_REVENUE_AMOUNT"),
           weekly_units |-> SumNonNull(of(k), "QUANTITY")] : k \in keys }

\* line 301: .sort(["WEEk", "weekly_revenue"], descending=[False, True])
RECURSIVE sort_week_revenue(_)
sort_week_revenue(S) ==
    IF S = {} THEN {<<>>}
    ELSE LET first == {g \in S : \A h \in S :
                          \/ g.WEEk < h.WEEk
                          \/ g.WEEk = h.WEEk /\ h.weekly_revenue <= g.weekly_revenue}
         IN  UNION { { <<g>> \o q : q \in sort_week_revenue(S \ {g}) } : g \in first }

\* lines 253-387: what one run of the page computes and shows.  line 283:
\* an empty top5_overall ends the run with a warning (st.stop); line 315:
\* the mean of an empty weekly_revenue column is None, and formatting None
\* with ",.2f" on line 316 raises TypeError
TopProductsPage(filtered_daily, selected_categories) ==
    LET cf == category_filtered_of(filtered_daily, selected_categories)
        shown(t5, wk, msg, err) ==
            [page |-> "top", selected_categories |-> selected_categories,
             category_filtered |-> cf, top5_overall |-> t5, weekly_top5 |-> wk,
             message |-> msg, error |-> err]
    IN  UNION { IF Len(t5) = 0
                THEN { shown(t5, <<>>, "warning", "none") }
                ELSE { shown(t5, wk, "none",
                             IF wk = <<>> THEN "TypeError" ELSE "none")
                       : wk \in sort_week_revenue(
                                    weekly_groups(cf, top5_products_of(t5))) }
              : t5 \in top5_overall_of(cf) }

\* the daily tables of the page's specification: n products, one row each,
\* product i sold in week i, the first a beer and the others snacks; the t
\* first products have the same revenue t and the others have revenue i; and
\* at most one more row
MaxProducts == 6
MaxTied == 3

Product(i) == "P" \o ToString(i)

DailyRow(brand, desc, cat, week, month, revenue, units) ==
    [CALENDAR_YEAR |-> Some(2022), CALENDAR_MONTH |-> Some(month),
     BRAND |-> brand, SKUPOS_DESCRIPTION |-> desc, CATEGORY |-> cat,
     SUBCATEGORY |-> Null, WEEk |-> week,
     TOTAL_REVENUE_AMOUNT |-> Some(revenue), QUANTITY |-> Some(units),
     TRANSACTION_COUNT |-> Some(1), STORE_ID |-> Some(7)]

ProductRows(n, t) ==
    [i \in 1..n |-> DailyRow(Some("ACME"), Some(Product(i)),
                             IF i = 1 THEN Some("BEER") ELSE Some("SNACK"),
                             Some(i), (i % 2) + 1, IF i <= t THEN t ELSE i, 1)]

\* rows about product n: under another brand, without a brand, as fuel,
\* without a category, in another week, without a week; and rows of other
\* products: without a description, with no unit sold
ExtraRows(n) ==
    LET d == Some(Product(n))
    IN  { DailyRow(Some("OTHER"), d, Some("SNACK"), Some(n), 1, 0, 1),
          DailyRow(Null, d, Some("SNACK"), Some(n), 1, 9, 1),
          DailyRow(Some("ACME"), d, Some("FUEL"), Some(n), 1, 9, 1),
          DailyRow(Some("ACME"), d, Null, Some(n), 1, 9, 1),
          DailyRow(Some("ACME"), d, Some("SNACK"), Some(n + 1), 1, 1, 1),
          DailyRow(Some("ACME"), d, Some("SNACK"), Null, 1, 1, 1),
          DailyRow(Some("ACME"), Null, Some("SNACK"), Some(n), 1, 9, 1),
          DailyRow(Some("ACME"), Some("FREE"), Some("SNACK"), Some(n), 1, 9, 0),
          DailyRow(Some("ACME"), Some("VOID"), Some("SNACK"), Some(n), 1, 0, 0) }

TopDailyTables ==
    UNION { UNION { { ProductRows(n, t) \o x
                      : x \in {<<>>} \cup {<<e>> : e \in ExtraRows(n)} }
                    : t \in 1..(IF n < 1 THEN 1 ELSE IF n < MaxTied THEN n ELSE MaxTied) }
            : n \in 0..MaxProducts }

\* st.multiselect(label, options, default=options): the widget keeps the
\* user's selection while its options are the same, and is a new widget,
\* with its default, when they change
KeepSelection(options) ==
    IF options = categories_of(unified.filtered_daily)
    THEN report.selected_categories ELSE options

\* one run of the script on the page: line 166, then the page
\* picked is Some(the categories the user has just picked) or Null
TopRun(y, m, picked) ==
    /\ year' = y
    /\ months' = m
    /\ unified' = get_unified_data(data, y, m)
    /\ report' \in TopProductsPage(unified'.filtered_daily,
                     IF picked = Null
                     THEN KeepSelection(categories_of(unified'.filtered_daily))
                     ELSE picked[1])
    /\ UNCHANGED <<data, pvars>>

\* the first run of the page: "All Years", all months, default=categories
TopInit ==
    /\ \E d \in TopDailyTables :
           data = [daily |-> d, sets |-> NoData.sets, items |-> <<>>]
    /\ year = Null
    /\ months = MonthsU
    /\ unified = get_unified_data(data, year, months)
    /\ report \in TopProductsPage(unified.filtered_daily,
                                  categories_of(unified.filtered_daily))
    /\ stores = <<>>
    /\ ss = Empty
    /\ files = Empty
    /\ memo = NoMemo
    /\ obs = NoObs
    /\ failedReads = {}

\* a rerun of the page with nothing changed
TopRerun == TopRun(year, months, Null)

\* the category multiselect changes
TopSelectCategories ==
    \E sel \in SUBSET categories_of(unified.filtered_daily) :
        /\ sel # report.selected_categories
        /\ TopRun(year, months, Some(sel))

\* the sidebar's year or months change
TopSelectYear ==
    \E y \in {Null} \cup {Some(v) : v \in Years} :
        y # year /\ TopRun(y, months, Null)

TopSelectMonths ==
    \E m \in SUBSET MonthsU :
        m # months /\ TopRun(year, m, Null)

TopNext ==
    \/ TopRerun
    \/ TopSelectCategories
    \/ TopSelectYear
    \/ TopSelectMonths

SpecTop == TopInit /\ [][TopNext]_vars


-----------------------------------------------------------------------------
(* Packaged Beverages page, lines 390-534 *)

\* the category and subcategory texts of the data that match (?i)BEVERAGE
\* and (?i)DRINK
BeverageTexts == {"PACKAGED BEVERAGES"}
DrinkTexts == {"Energy Drinks"}

\* str.contains(): null for a null cell
Contains3(cell, texts) == IsIn3(cell, texts)

\* a | b in polars' three-valued logic
Or3(a, b) ==
    IF a = "true" \/ b = "true" THEN "true"
    ELSE IF a = "false" /\ b = "false" THEN "false" ELSE "null"

\* lines 417-426
bev_rows(filtered_daily) ==
    Filter(filtered_daily,
           LAMBDA r : And3(NotNull3(r.CATEGORY),
                      And3(NotNull3(r.BRAND),
                           Or3(Or3(Contains3(r.CATEGORY, BeverageTexts),
                                   Contains3(r.CATEGORY, DrinkTexts)),
                               Or3(Contains3(r.SUBCATEGORY, BeverageTexts),
                                   Contains3(r.SUBCATEGORY, DrinkTexts))))))

\* lines 427-436: one row per BRAND
bev_groups(filtered_daily) ==
    LET rows == bev_rows(filtered_daily)
        of(b) == SelectSeq(rows, LAMBDA r : r.BRAND = b)
    IN  { [BRAND |-> b,
           revenue |-> SumNonNull(of(b), "TOTAL_REVENUE_AMOUNT"),
           units |-> SumNonNull(of(b), "QUANTITY"),
           transactions |-> SumNonNull(of(b), "TRANSACTION_COUNT"),
           rev_per_unit |-> Div(SumNonNull(of(b), "TOTAL_REVENUE_AMOUNT"),
                                SumNonNull(of(b), "QUANTITY")),
           rev_per_transaction |-> Div(SumNonNull(of(b), "TOTAL_REVENUE_AMOUNT"),
                                       SumNonNull(of(b), "TRANSACTION_COUNT"))]
          : b \in {rows[i].BRAND : i \in DOMAIN rows} }

\* sort(c): rows with equal c in any order
RECURSIVE sort_asc(_, _)
sort_asc(S, c) ==
    IF S = {} THEN {<<>>}
    ELSE LET first == {g \in S : \A h \in S : g[c] <= h[c]}
         IN  UNION { { <<g>> \o q : q \in sort_asc(S \ {g}, c) } : g \in first }

\* lines 415-439
bev_perf_of(filtered_daily, min_transactions) ==
    sort_asc({g \in bev_groups(filtered_daily) : g.transactions >= min_transactions},
             "revenue")

\* the threshold used when the threshold line is switched off, line 462
DefaultThreshold == 10000

\* line 462
low_performers_of(bev_perf, show_threshold, revenue_threshold) ==
    SelectSeq(bev_perf,
              LAMBDA g : g.revenue < (IF show_threshold THEN revenue_threshold[1]
                                      ELSE DefaultThreshold))

\* lines 407-534: what one run of the page computes and shows; revenue_threshold
\* is bound only when the checkbox is ticked
BeveragePage(filtered_daily, min_transactions, show_threshold, revenue_threshold) ==
    { [page |-> "bev", min_transactions |-> min_transactions,
       show_threshold |-> show_threshold, revenue_threshold |-> revenue_threshold,
       bev_perf |-> bp,
       message |-> IF Len(bp) = 0 THEN "warning" ELSE "none",
       below_threshold |->
           IF Len(bp) = 0 THEN Null
           ELSE Some(Len(low_performers_of(bp, show_threshold, revenue_threshold))),
       error |-> "none"]
      : bp \in bev_perf_of(filtered_daily, min_transactions) }

\* the daily tables of the page's specification
MaxBevRows == 2

BevRow(brand, cat, subcat, revenue, units, txns) ==
    [DailyRow(brand, Some("X"), cat, Some(1), 1, revenue, units)
        EXCEPT !.SUBCATEGORY = subcat, !.TRANSACTION_COUNT = Some(txns)]

BevRows ==
    { BevRow(Some("B1"), Some("PACKAGED BEVERAGES"), Null, 5000, 1, 20),
      BevRow(Some("B1"), Some("PACKAGED BEVERAGES"), Null, 20000, 2, 10),
      BevRow(Some("B2"), Some("SNACK"), Some("Energy Drinks"), 5000, 1, 10),
      BevRow(Some("B2"), Some("SNACK"), Null, 5000, 1, 20),
      BevRow(Some("B2"), Some("SNACK"), Some("CHIPS"), 5000, 1, 20),
      BevRow(Null, Some("PACKAGED BEVERAGES"), Null, 5000, 1, 20),
      BevRow(Some("B3"), Null, Some("Energy Drinks"), 5000, 1, 20),
      BevRow(Some("B3"), Some("PACKAGED BEVERAGES"), Null, 9000, 0, 0) }

BevDailyTables == UNION { [1..n -> BevRows] : n \in 0..MaxBevRows }

\* the values the slider and the number input take in the specification
MinTransactionsValues == {0, 18, 30}
ThresholdValues == {DefaultThreshold, 30000}

\* one run of the script on the page: line 166, then the page
BevRun(y, m, min_transactions, show_threshold, revenue_threshold) ==
    /\ year' = y
    /\ months' = m
    /\ unified' = get_unified_data(data, y, m)
    /\ report' \in BeveragePage(unified'.filtered_daily, min_transactions,
                                show_threshold, revenue_threshold)
    /\ UNCHANGED <<data, pvars>>

\* the first run of the page: slider at 18, checkbox ticked, threshold 10000
BevInit ==
    /\ \E d \in BevDailyTables :
           data = [daily |-> d, sets |-> NoData.sets, items |-> <<>>]
    /\ year = Null
    /\ months = MonthsU
    /\ unified = get_unified_data(data, year, months)
    /\ report \in BeveragePage(unified.filtered_daily, 18, TRUE, Some(DefaultThreshold))
    /\ stores = <<>>
    /\ ss = Empty
    /\ files = Empty
    /\ memo = NoMemo
    /\ obs = NoObs
    /\ failedReads = {}

\* line 407: the slider moves
BevSetMinTransactions ==
    \E v \in MinTransactionsValues :
        /\ v # report.min_transactions
        /\ BevRun(year, months, v, report.show_threshold, report.revenue_threshold)

\* line 409: the checkbox is ticked (the number input appears with its
\* default) or unticked (the number input is not rendered)
BevToggleThreshold ==
    BevRun(year, months, report.min_transactions, ~ report.show_threshold,
           IF report.show_threshold THEN Null ELSE Some(DefaultThreshold))

\* line 411: the number input changes
BevSetThreshold ==
    /\ report.show_threshold
    /\ \E v \in ThresholdValues :
           /\ Some(v) # report.revenue_threshold
           /\ BevRun(year, months, report.min_transactions, TRUE, Some(v))

BevSelectYear ==
    \E y \in {Null} \cup {Some(v) : v \in Years} :
        /\ y # year
        /\ BevRun(y, months, report.min_transactions, report.show_threshold,
                  report.revenue_threshold)

BevSelectMonths ==
    \E m \in SUBSET MonthsU :
        /\ m # months
        /\ BevRun(year, m, report.min_transactions, report.show_threshold,
                  report.revenue_threshold)

BevNext ==
    \/ BevSetMinTransactions
    \/ BevToggleThreshold
    \/ BevSetThreshold
    \/ BevSelectYear
    \/ BevSelectMonths

SpecBev == BevInit /\ [][BevNext]_vars


-----------------------------------------------------------------------------
(* Cash Versus Credit Customers page, lines 537-693 *)

\* lines 551 and 568
PaymentTypes == {"CASH", "CREDIT", "DEBIT"}

\* lines 548-552
payment_sets(filtered_sets) ==
    Filter(filtered_sets.rows,
           LAMBDA r : And3(NotNull3(r.PAYMENT_TYPE), IsIn3(r.PAYMENT_TYPE, PaymentTypes)))

\* lines 553-557: inner join with the items on TRANSACTION_SET_ID; the items'
\* GRAND_TOTAL_AMOUNT gets the suffix _right, the sets' keeps the name
join_items(sets_rows, filtered_items) ==
    Concat([i \in DOMAIN sets_rows |->
        LET m == SelectSeq(filtered_items, LAMBDA it :
                     it.TRANSACTION_SET_ID = sets_rows[i].TRANSACTION_SET_ID)
        IN  [j \in DOMAIN m |->
                [PAYMENT_TYPE |-> sets_rows[i].PAYMENT_TYPE,
                 TRANSACTION_SET_ID |-> sets_rows[i].TRANSACTION_SET_ID,
                 GRAND_TOTAL_AMOUNT |-> sets_rows[i].GRAND_TOTAL_AMOUNT,
                 GTIN |-> m[j].GTIN,
                 UNIT_QUANTITY |-> m[j].UNIT_QUANTITY]]])

\* lines 558-562: left join with the product master on GTIN
join_gtin(rows, gtin) ==
    Concat([i \in DOMAIN rows |->
        LET m == SelectSeq(gtin, LAMBDA g : rows[i].GTIN # Null /\ g.GTIN = rows[i].GTIN)
        IN  IF m = <<>>
            THEN << ("CATEGORY" :> Null) @@ ("SKUPOS_DESCRIPTION" :> Null) @@ rows[i] >>
            ELSE [j \in DOMAIN m |->
                     ("CATEGORY" :> m[j].CATEGORY) @@
                     ("SKUPOS_DESCRIPTION" :> m[j].SKUPOS_DESCRIPTION) @@ rows[i]]])

\* lines 547-563
payment_analysis_of(u, gtin) ==
    join_gtin(join_items(payment_sets(u.filtered_sets), u.filtered_items), gtin)

\* line 572
filtered_payments_of(payment_analysis, payment_types) ==
    Filter(payment_analysis, LAMBDA r : IsIn3(r.PAYMENT_TYPE, payment_types))

\* n_unique() of TRANSACTION_SET_ID
n_unique_ids(rows) == Cardinality({rows[i].TRANSACTION_SET_ID : i \in DOMAIN rows})

\* mean(): null when the column has no non-null value
mean(rows, c) ==
    LET vals == SelectSeq(rows, LAMBDA r : r[c] # Null)
    IN  IF vals = <<>> THEN Null
        ELSE Some([num |-> SumNonNull(vals, c), den |-> Len(vals)])

\* lines 575-587: one row per PAYMENT_TYPE
payment_summary_of(filtered_payments) ==
    LET of(p) == SelectSeq(filtered_payments, LAMBDA r : r.PAYMENT_TYPE = p)
    IN  { [PAYMENT_TYPE |-> p,
           num_transactions |-> n_unique_ids(of(p)),
           total_spend |-> SumNonNull(of(p), "GRAND_TOTAL_AMOUNT"),
           avg_ticket |-> mean(of(p), "GRAND_TOTAL_AMOUNT"),
           total_items |-> SumNonNull(of(p), "UNIT_QUANTITY"),
           avg_items_per_txn |-> Div(SumNonNull(of(p), "UNIT_QUANTITY"),
                                     n_unique_ids(of(p)))]
          : p \in {filtered_payments[i].PAYMENT_TYPE : i \in DOMAIN filtered_payments} }

\* lines 591-597: one row per (PAYMENT_TYPE, SKUPOS_DESCRIPTION, CATEGORY)
product_groups(filtered_payments) ==
    LET rows == Filter(filtered_payments, LAMBDA r : NotNull3(r.CATEGORY))
        key(r) == <<r.PAYMENT_TYPE, r.SKUPOS_DESCRIPTION, r.CATEGORY>>
        of(k) == SelectSeq(rows, LAMBDA r : key(r) = k)
    IN  { [PAYMENT_TYPE |-> k[1], SKUPOS_DESCRIPTION |-> k[2], CATEGORY |-> k[3],
           purchase_count |-> n_unique_ids(of(k)),
           revenue |-> SumNonNull(of(k), "GRAND_TOTAL_AMOUNT")]
          : k \in {key(rows[i]) : i \in DOMAIN rows} }

\* mutant: one head(5) over the whole sorted frame
head_per_type_Global(groups, n) ==
    { [p \in {g.PAYMENT_TYPE : g \in groups} |->
          SelectSeq(q, LAMBDA g : g.PAYMENT_TYPE = p)]
      : q \in sort_desc_limit(groups, "purchase_count", n) }

\* lines 598-600: sort by PAYMENT_TYPE, then purchase_count descending, and
\* keep the first n rows of every PAYMENT_TYPE.  group_by().head() returns
\* the payment types in no particular order and the page reads the frame one
\* payment type at a time (line 626): the frame is held as the rows of each
\* payment type, in their order
head_per_type(groups, n) ==
    LET types == {g.PAYMENT_TYPE : g \in groups}
        heads == [p \in types |->
                    sort_desc_limit({g \in groups : g.PAYMENT_TYPE = p},
                                    "purchase_count", n)]
    IN  {f \in [types -> UNION {heads[p] : p \in types}] :
            \A p \in types : f[p] \in heads[p]}

\* line 600
HeadN == 5

\* lines 590-601
top_products_by_payment_of(filtered_payments) ==
    head_per_type(product_groups(filtered_payments), HeadN)

\* lines 572-693: what one run of the page computes and shows.  The page has
\* no st.warning or st.info.  line 618 formats avg_ticket, and line 674 the
\* mean of the avg_ticket column, with ".2f": a None there (a payment type
\* whose amounts are all null; no row at all) raises TypeError
PaymentPage(u, gtin, payment_types, show_avg_line) ==
    LET fp == filtered_payments_of(payment_analysis_of(u, gtin), payment_types)
        ps == payment_summary_of(fp)
        tickets == {g.avg_ticket : g \in ps} \ {Null}
        avg_ticket_value == IF tickets = {} THEN Null ELSE Some(tickets)
        metrics == Cardinality(payment_types) >= 2
        err == IF metrics /\ \E g \in ps :
                      g.PAYMENT_TYPE[1] \in payment_types /\ g.avg_ticket = Null
               THEN "TypeError"
               ELSE IF show_avg_line /\ avg_ticket_value = Null THEN "TypeError"
               ELSE "none"
    IN  { [page |-> "pay", payment_types |-> payment_types,
           show_avg_line |-> show_avg_line,
           filtered_payments |-> fp, payment_summary |-> ps,
           top_products_by_payment |-> tpp,
           avg_ticket_value |-> avg_ticket_value,
           message |-> "none", error |-> err]
          : tpp \in top_products_by_payment_of(fp) }

\* the tables of the page's specification.  Cash customers buy n products in
\* the transactions 1..n: product i is in the transactions 1..c(i), where the
\* t first products have c = t and the others c = i (t > 1 with the largest
\* n only).  One credit transaction (50) holds the products 1..k.
PayColumns == SetsColumns \cup {"PAYMENT_TYPE"}

PaySet(id, ptype, amount) ==
    [TRANSACTION_SET_ID |-> id, STORE_ID |-> 7,
     DATE_TIME |-> Some([year |-> 2022, month |-> 1]),
     GRAND_TOTAL_AMOUNT |-> amount, PAYMENT_TYPE |-> ptype]

PayItem(id, g) ==
    [TRANSACTION_SET_ID |-> id, GTIN |-> Some(g), UNIT_QUANTITY |-> Some(1),
     UNIT_PRICE |-> Some(2), GRAND_TOTAL_AMOUNT |-> Some(2), ITEM |-> g]

Purchases(i, t) == IF i <= t THEN t ELSE i

\* how the tables vary: not at all; no credit transaction; an item of a
\* product the master does not know; a transaction without a payment type;
\* one paid by check; one paid by debit card; an item of no transaction set;
\* cash amounts all null
PayVariants == {"none", "no_credit", "unknown_gtin", "null_type", "check", "debit",
                "orphan", "null_amounts"}

MaxCreditProducts == 2

PaySets(n, k, v) ==
    [j \in 1..n |-> PaySet(j, Some("CASH"),
                           IF v = "null_amounts" THEN Null ELSE Some(10))]
    \o (IF k > 0 THEN <<PaySet(50, Some("CREDIT"), Some(30))>> ELSE <<>>)
    \o (CASE v = "null_type" -> <<PaySet(60, Null, Some(10))>>
          [] v = "check" -> <<PaySet(60, Some("CHECK"), Some(10))>>
          [] v = "debit" -> <<PaySet(60, Some("DEBIT"), Some(10))>>
          [] OTHER -> <<>>)

PayItems(n, t, k, v) ==
    Concat([i \in 1..n |-> [j \in 1..Purchases(i, t) |-> PayItem(j, i)]])
    \o [i \in 1..k |-> PayItem(50, i)]
    \o (CASE v \in {"null_type", "check", "debit"} -> <<PayItem(60, 1)>>
          [] v = "unknown_gtin" -> <<PayItem(IF n > 0 THEN 1 ELSE 50, 99)>>
          [] v = "orphan" -> <<PayItem(77, 1)>>
          [] OTHER -> <<>>)

\* the product master: one row per GTIN
GtinTable ==
    [g \in 1..(MaxProducts + 1) |->
        [GTIN |-> Some(g), CATEGORY |-> Some("SNACK"),
         SKUPOS_DESCRIPTION |-> Some(Product(g))]]

PayData ==
    { [daily |-> <<>>,
       sets |-> [columns |-> PayColumns, rows |-> PaySets(c[1], c[3], c[4])],
       items |-> PayItems(c[1], c[2], c[3], c[4]),
       gtin |-> GtinTable]
      : c \in { x \in (0..MaxProducts) \X (1..MaxTied) \X {0, MaxCreditProducts} \X PayVariants :
                  /\ x[2] = 1 \/ x[1] = MaxProducts
                  /\ x[3] = 0 <=> x[4] = "no_credit" } }

\* one run of the script on the page: line 166, then the page
PayRun(y, m, payment_types, show_avg_line) ==
    /\ year' = y
    /\ months' = m
    /\ unified' = get_unified_data(data, y, m)
    /\ report' \in PaymentPage(unified', data.gtin, payment_types, show_avg_line)
    /\ UNCHANGED <<data, pvars>>

\* the first run of the page: default=["CASH", "CREDIT"], value=True
PayInit ==
    /\ data \in PayData
    /\ year = Null
    /\ months = MonthsU
    /\ unified = get_unified_data(data, year, months)
    /\ report \in PaymentPage(unified, data.gtin, {"CASH", "CREDIT"}, TRUE)
    /\ stores = <<>>
    /\ ss = Empty
    /\ files = Empty
    /\ memo = NoMemo
    /\ obs = NoObs
    /\ failedReads = {}

\* line 568: the payment type multiselect changes
PaySelectTypes ==
    \E pt \in SUBSET PaymentTypes :
        /\ pt # report.payment_types
        /\ PayRun(year, months, pt, report.show_avg_line)

\* line 570: the checkbox changes
PayToggleAvgLine ==
    PayRun(year, months, report.payment_types, ~ report.show_avg_line)

\* the sidebar's months change (the year stays "All Years" in this
\* specification: every transaction set of its tables is of one year)
PaySelectMonths ==
    \E m \in SUBSET MonthsU :
        m # months /\ PayRun(year, m, report.payment_types, report.show_avg_line)

PayNext ==
    \/ PaySelectTypes
    \/ PayToggleAvgLine
    \/ PaySelectMonths

SpecPay == PayInit /\ [][PayNext]_vars


-----------------------------------------------------------------------------
(* Claims about the pipeline *)

\* C1: the stage flags are ordered (county_acs_fetched true implies
\* acs_tract_fetched true implies tract_geocoded true), and the fetch of a
\* stage runs only in a run where the previous stage's flag is already true.
C1_StagesOrdered ==
    /\ Get(ss, "county_acs_fetched") => Get(ss, "acs_tract_fetched")
    /\ Get(ss, "acs_tract_fetched") => Get(ss, "tract_geocoded")
    /\ obs.acsLoop => obs.acsGate
    /\ obs.countyFetch => obs.countyGate

C1_Witness ==
    /\ obs.countyFetch
    /\ Get(ss, "county_acs_fetched")
    /\ Get(ss, "tract_geocoded")

\* C2 (as claimed): whenever the enrichment join is evaluated, the three
\* stage results are in session state, and a run in which tract ACS is
\* fetched but the county stage is not complete ends without an unhandled
\* error.
C2_JoinOnlyAfterCounty ==
    /\ obs.joinReached => obs.joinMissing = {}
    /\ (obs.page = "demo" /\ Get(ss, "acs_tract_fetched")
          /\ ~ Get(ss, "county_acs_fetched")) => obs.error = "none"

\* C3: after Clear Census Cache no cache file exists and none of the six
\* session keys is present; the next run finds no cache, renders the Geocode
\* button enabled, and either runs the geocoding loop (Geocode clicked) or
\* ends with tract_geocoded False and the later stages not rendered.
C3_ClearResets ==
    /\ obs.cleared =>
          /\ DOMAIN files \cap CacheFiles = {}
          /\ DOMAIN ss \cap SessionKeys = {}
    /\ (obs.prevCleared /\ obs.page = "demo") =>
          /\ "geocode" \in obs.shown
          /\ obs.readErrors = {}
          /\ IF obs.pressed = "geocode"
             THEN /\ obs.geoLoop
                  /\ ss["tract_geocoded"]
                  /\ Len(ss["tract_df"]) = Len(stores)
             ELSE /\ ~ obs.geoLoop
                  /\ obs.cleared \/ ss["tract_geocoded"] = FALSE
                  /\ obs.cleared \/ ~ Has(ss, "tract_df")
                  /\ obs.rendered \cap {"tract", "county"} = {}

\* a clear that removed all three files and a session that held every key
C3_Witness ==
    /\ obs.cleared
    /\ obs.deleted = CacheFiles

\* the geocoding loop run again right after a clear
C3_WitnessRerun ==
    /\ obs.prevCleared
    /\ obs.geoLoop

\* the rows of a geocode table whose three geography fields are null
NullRows(df) ==
    {i \in DOMAIN df :
        df[i].STATEFP = NULL /\ df[i].COUNTYFP = NULL /\ df[i].TRACT = NULL}

\* C5: a geocoding run visits every store and persists exactly one row per
\* store, in store order; the rows with null STATEFP, COUNTYFP and TRACT are
\* exactly those of the stores whose geocoding call failed; afterwards
\* tract_geocoded is True.
C5_GeocodeRows ==
    obs.geoLoop =>
        /\ ss["tract_geocoded"]
        /\ Has(files, "census_tract_geocoded")
        /\ files["census_tract_geocoded"] = ss["tract_df"]
        /\ Len(ss["tract_df"]) = Len(stores)
        /\ \A i \in DOMAIN stores :
              ss["tract_df"][i].STORE_ID = stores_df(stores)[i].STORE_ID
        /\ NullRows(ss["tract_df"]) = obs.geoFailed
        /\ Cardinality(NullRows(ss["tract_df"])) = Cardinality(obs.geoFailed)
        /\ \A i \in DOMAIN stores \ obs.geoFailed :
              /\ ss["tract_df"][i].STATEFP # NULL
              /\ ss["tract_df"][i].COUNTYFP # NULL
              /\ ss["tract_df"][i].TRACT # NULL

\* a batch of two stores of which exactly one failed
C5_Witness ==
    /\ obs.geoLoop
    /\ Len(stores) = 2
    /\ Cardinality(obs.geoFailed) = 1
    /\ Len(ss["tract_df"]) = 2

\* the distinct triples of a geocode table in which all three fields are
\* non-null
NonNullTriples(df) ==
    { [STATEFP |-> df[i].STATEFP, COUNTYFP |-> df[i].COUNTYFP, TRACT |-> df[i].TRACT]
      : i \in {j \in DOMAIN df :
                 df[j].STATEFP # NULL /\ df[j].COUNTYFP # NULL /\ df[j].TRACT # NULL} }

TripleOf(r) == [STATEFP |-> r.STATEFP, COUNTYFP |-> r.COUNTYFP, TRACT |-> r.TRACT]

\* C6: a tract ACS run requests exactly the distinct non-null triples of the
\* geocode result, each once; with K of them failing or answering empty, the
\* persisted table has (requested - K) rows, one per successful triple and
\* none for a failed one.
C6_TractRows ==
    obs.acsLoop =>
        /\ Range(obs.acsRequested) = NonNullTriples(ss["tract_df"])
        /\ Len(obs.acsRequested) = Cardinality(NonNullTriples(ss["tract_df"]))
        /\ obs.acsFailed \subseteq Range(obs.acsRequested)
        /\ Has(files, "census_tract_acs")
        /\ files["census_tract_acs"] = ss["acs_tract_df"]
        /\ Len(ss["acs_tract_df"]) =
              Len(obs.acsRequested) - Cardinality(obs.acsFailed)
        /\ {TripleOf(r) : r \in Range(ss["acs_tract_df"])} =
              Range(obs.acsRequested) \ obs.acsFailed
        /\ \A i, j \in DOMAIN ss["acs_tract_df"] :
              TripleOf(ss["acs_tract_df"][i]) = TripleOf(ss["acs_tract_df"][j])
                  => i = j

\* two tracts requested, one of them failed
C6_Witness ==
    /\ obs.acsLoop
    /\ Len(obs.acsRequested) = 2
    /\ Cardinality(obs.acsFailed) = 1
    /\ Len(ss["acs_tract_df"]) = 1

\* every requested tract failed
C6_WitnessAllFailed ==
    /\ obs.acsLoop
    /\ Len(obs.acsRequested) = 2
    /\ Cardinality(obs.acsFailed) = 2

\* C7: when the bulk county call fails, the county cache file and the county
\* keys of session state are left as they were before the call (no file is
\* written, county_acs_df is not assigned, a False county_acs_fetched stays
\* False); a county cache file holds the full result of a successful call.
C7_CountyFailure ==
    /\ (obs.countyFetch /\ obs.countyFailed) =>
          /\ Only(ss, {"county_acs_fetched", "county_acs_df"}) = obs.countyBefore[1]
          /\ Only(files, {"census_county_acs"}) = obs.countyBefore[2]
          /\ ~ obs.countyBefore[1]["county_acs_fetched"] =>
                /\ ~ ss["county_acs_fetched"]
                /\ ~ Has(ss, "county_acs_df")
    /\ Has(files, "census_county_acs") => files["census_county_acs"] = CountyDF
    /\ Has(ss, "county_acs_df") => ss["county_acs_df"] = CountyDF

\* a failed county call in a session whose county stage was not complete
C7_Witness ==
    /\ obs.countyFetch
    /\ obs.countyFailed
    /\ obs.countyCalled
    /\ ~ ss["county_acs_fetched"]

-----------------------------------------------------------------------------
(* C4: a written cache file makes its stage complete *)

Stages == {"geocode", "tract", "county"}

StageFile(s) ==
    CASE s = "geocode" -> "census_tract_geocoded"
      [] s = "tract"   -> "census_tract_acs"
      [] s = "county"  -> "census_county_acs"

StageFlag(s) ==
    CASE s = "geocode" -> "tract_geocoded"
      [] s = "tract"   -> "acs_tract_fetched"
      [] s = "county"  -> "county_acs_fetched"

StageDf(s) ==
    CASE s = "geocode" -> "tract_df"
      [] s = "tract"   -> "acs_tract_df"
      [] s = "county"  -> "county_acs_df"

\* the stage issued an external request in the run o describes
Requested(o, s) ==
    CASE s = "geocode" -> o.geoCalls # {}
      [] s = "tract"   -> o.acsCalls # {}
      [] s = "county"  -> o.countyCalled

\* the stage's fetch ran in the run o describes
Fetched(o, s) ==
    CASE s = "geocode" -> o.geoLoop
      [] s = "tract"   -> o.acsLoop
      [] s = "county"  -> o.countyFetch

\* the stage and the stages before it
UpTo(s) ==
    CASE s = "geocode" -> {"geocode"}
      [] s = "tract"   -> {"geocode", "tract"}
      [] s = "county"  -> Stages

\* a step that is a run of the demographics page: OtherPage and NewSession
\* leave another page in obs, ExpireMemo only empties a memo
DemoRun == obs'.page = "demo" /\ ~ ExpireMemo

-----------------------------------------------------------------------------
(* Claims about get_unified_data *)

\* the period predicate as the claims state it: the month is among the
\* selected months and, when a year is selected, the year equals it
InPeriod(y, m) ==
    /\ m # Null /\ m[1] \in months
    /\ year # Null => (y # Null /\ y[1] = year[1])

SetInPeriod(r) == InPeriod(DtYear(r.DATE_TIME), DtMonth(r.DATE_TIME))

\* the identifiers of the input transaction sets that pass the period filter
SurvivingIds ==
    {r.TRANSACTION_SET_ID : r \in {x \in Range(data.sets.rows) : SetInPeriod(x)}}

\* C8: every row of filtered_items has a TRANSACTION_SET_ID that appears in
\* filtered_sets, and every item whose transaction set passed the period
\* filter is in filtered_items.
C8_ItemsFollowSets ==
    /\ \A r \in Range(unified.filtered_items) :
          \E t \in Range(unified.filtered_sets.rows) :
              t.TRANSACTION_SET_ID = r.TRANSACTION_SET_ID
    /\ unified.filtered_items =
          SelectSeq(data.items, LAMBDA r : r.TRANSACTION_SET_ID \in SurvivingIds)

\* items of a kept set, of a filtered-out set and of no set at all, with a
\* year selected
C8_Witness ==
    /\ year # Null
    /\ Len(data.items) = 2
    /\ Len(unified.filtered_items) = 1
    /\ Len(data.sets.rows) = 2
    /\ Len(unified.filtered_sets.rows) = 1

RECURSIVE AmountSum(_)
AmountSum(rows) ==
    IF rows = <<>> THEN 0
    ELSE (IF Head(rows).GRAND_TOTAL_AMOUNT = Null THEN 0
          ELSE Head(rows).GRAND_TOTAL_AMOUNT[1]) + AmountSum(Tail(rows))

\* C9: total_transactions is the number of rows of filtered_sets (0 when no
\* set matches) and total_revenue is the sum of GRAND_TOTAL_AMOUNT over
\* those rows (0 when there are none).
C9_Totals ==
    /\ unified.total_transactions = Len(unified.filtered_sets.rows)
    /\ unified.total_revenue = AmountSum(unified.filtered_sets.rows)
    /\ unified.filtered_sets.rows = <<>> =>
          unified.total_transactions = 0 /\ unified.total_revenue = 0

\* a filter that keeps one of two sets, and that one has an amount
C9_Witness ==
    /\ Len(data.sets.rows) = 2
    /\ unified.total_transactions = 1
    /\ unified.total_revenue = 3

\* a filter no set matches
C9_WitnessEmpty ==
    /\ Len(data.sets.rows) = 2
    /\ unified.total_transactions = 0
    /\ unified.total_revenue = 0

\* C10: both tables are filtered by the same period predicate (month
\* membership, and the year when one is selected), and filtered_sets has
\* exactly the columns of the input sets table.
C10_SamePeriodBothTables ==
    /\ unified.filtered_daily =
          SelectSeq(data.daily, LAMBDA r : InPeriod(r.CALENDAR_YEAR, r.CALENDAR_MONTH))
    /\ unified.filtered_sets.rows = SelectSeq(data.sets.rows, SetInPeriod)
    /\ unified.filtered_sets.columns = data.sets.columns
    /\ \A r \in Range(unified.filtered_sets.rows) : DOMAIN r = data.sets.columns

\* a year and one month selected: one of two daily rows is kept
C10_Witness ==
    /\ year # Null
    /\ Len(data.daily) = 2
    /\ Len(unified.filtered_daily) = 1
    /\ Len(data.sets.rows) = 2
    /\ Len(unified.filtered_sets.rows) = 1

-----------------------------------------------------------------------------
(* Claims about the script run *)

\* a step that runs the script
ScriptRun == obs'.page # "none" /\ ~ ExpireMemo

\* C19: get_unified_data is called once per change of the filter parameters
\* (year, months): a run of the script in a session that has already run it,
\* and that changes neither year nor months (a page widget change, a pipeline
\* button press), does not call it again.
C19_OncePerFilterChange ==
    [][ (ScriptRun /\ obs.page # "none" /\ year' = year /\ months' = months)
            => obs'.unified_calls = 0 ]_vars

\* C20: when the read of an existing cache file raises at the start of a
\* stage, the stage's flag is False unless the stage was fetched in that run,
\* its fetch button is enabled, and the run ends without an unhandled error;
\* for each of the three cache files.
C20_ReadErrorIsCacheAbsent ==
    \A s \in Stages :
        StageFile(s) \in obs.readErrors =>
            /\ Has(ss, StageFlag(s))
            /\ ss[StageFlag(s)] => Fetched(obs, s)
            /\ s \in obs.shown
            /\ obs.error = "none"

-----------------------------------------------------------------------------
(* Claims about the top products page *)

TopKey(r) == <<r.BRAND, r.SKUPOS_DESCRIPTION, r.CATEGORY>>
Complete(r) == r.BRAND # Null /\ r.SKUPOS_DESCRIPTION # Null /\ r.CATEGORY # Null
RevenueOf(rows, P(_)) == SumNonNull(SelectSeq(rows, P), "TOTAL_REVENUE_AMOUNT")

\* C12: the top-N aggregation is idempotent: a run of the page on the same
\* filtered daily table and the same category selection as the run before
\* yields the same products in the same order, also when groups have equal
\* summed revenue.
C12_TopNIdempotent ==
    [][ ( /\ unified'.filtered_daily = unified.filtered_daily
          /\ report'.selected_categories = report.selected_categories )
            => report'.top5_overall = report.top5_overall ]_vars

\* C13: top5_overall has at most 5 rows (5 when there are 5 groups or more),
\* one per distinct (BRAND, SKUPOS_DESCRIPTION, CATEGORY) group of the rows in
\* which all three are non-null, each with the group's summed revenue; its
\* rows are in non-increasing order of summed revenue, and no group left out
\* has a greater summed revenue than a group included.
C13_Top5Ranked ==
    LET t5 == report.top5_overall
        cf == report.category_filtered
        keys == {TopKey(cf[i]) : i \in {j \in DOMAIN cf : Complete(cf[j])}}
        rev(k) == RevenueOf(cf, LAMBDA r : TopKey(r) = k)
        in5 == {TopKey(t5[i]) : i \in DOMAIN t5}
    IN  /\ Len(t5) <= 5
        /\ Len(t5) = IF Cardinality(keys) < 5 THEN Cardinality(keys) ELSE 5
        /\ in5 \subseteq keys
        /\ Cardinality(in5) = Len(t5)
        /\ \A i \in DOMAIN t5 : t5[i].total_revenue = rev(TopKey(t5[i]))
        /\ \A i \in DOMAIN t5 : \A j \in DOMAIN t5 :
               i < j => t5[i].total_revenue >= t5[j].total_revenue
        /\ \A k \in keys \ in5 : \A i \in DOMAIN t5 : rev(k) <= t5[i].total_revenue

\* five products ranked, with different revenues, a sixth left out, and a row
\* without a brand that forms no group
C13_Witness ==
    LET t5 == report.top5_overall
        cf == report.category_filtered
    IN  /\ Len(t5) = 5
        /\ t5[1].total_revenue > t5[5].total_revenue
        /\ \E i \in DOMAIN cf : Complete(cf[i]) /\
               \A j \in DOMAIN t5 : TopKey(t5[j]) # TopKey(cf[i])
        /\ \E i \in DOMAIN cf : ~ Complete(cf[i])

\* the ranking and the weekly series are sums over the rows of feed only
FedBy(feed) ==
    /\ report.category_filtered = feed
    /\ \A i \in DOMAIN report.top5_overall :
           LET g == report.top5_overall[i]
           IN  /\ g.CATEGORY # Some("FUEL")
               /\ g.total_revenue = RevenueOf(feed, LAMBDA r : TopKey(r) = TopKey(g))
    /\ \A i \in DOMAIN report.weekly_top5 :
           LET w == report.weekly_top5[i]
           IN  w.weekly_revenue =
                   RevenueOf(feed, LAMBDA r : /\ r.WEEk = Some(w.WEEk)
                                              /\ r.SKUPOS_DESCRIPTION = w.SKUPOS_DESCRIPTION
                                              /\ r.BRAND = w.BRAND)

Selected(r) ==
    \/ report.selected_categories = {}
    \/ r.CATEGORY # Null /\ r.CATEGORY[1] \in report.selected_categories

\* C14: the rows that feed the top-5 aggregation are exactly the filtered
\* daily rows whose category is not FUEL and is in the selected categories
\* (with an empty selection: all the filtered daily rows whose category is not
\* FUEL), and no FUEL row contributes to the ranking or the weekly series.
C14_FeedRows ==
    FedBy(SelectSeq(unified.filtered_daily,
                    LAMBDA r : r.CATEGORY # Some("FUEL") /\ Selected(r)))

\* C14 as amended: the same of the filtered daily rows that have a category:
\* a row whose category is null feeds nothing, whatever the selection.
C14_FeedRowsWithCategory ==
    FedBy(SelectSeq(unified.filtered_daily,
                    LAMBDA r : /\ r.CATEGORY # Null
                               /\ r.CATEGORY # Some("FUEL")
                               /\ Selected(r)))

\* a fuel row of a ranked product is in the filtered daily table, and the
\* selection leaves another category out
C14_Witness ==
    /\ report.top5_overall # <<>>
    /\ report.weekly_top5 # <<>>
    /\ report.selected_categories # {}
    /\ \E i \in DOMAIN unified.filtered_daily :
           LET r == unified.filtered_daily[i]
           IN  r.CATEGORY # Null /\ r.CATEGORY # Some("FUEL") /\ ~ Selected(r)
    /\ \E i \in DOMAIN unified.filtered_daily :
           /\ unified.filtered_daily[i].CATEGORY = Some("FUEL")
           /\ \E j \in DOMAIN report.top5_overall :
                  report.top5_overall[j].SKUPOS_DESCRIPTION =
                      unified.filtered_daily[i].SKUPOS_DESCRIPTION

\* the empty selection with a row without a category in the table
C14_WitnessEmptySelection ==
    /\ report.top5_overall # <<>>
    /\ report.selected_categories = {}
    /\ \E i \in DOMAIN unified.filtered_daily :
           unified.filtered_daily[i].CATEGORY = Null

\* C15: every (week, description, brand) row of weekly_top5 belongs to a
\* product ranked in top5_overall and sums only rows of the ranked products;
\* the rows are sorted by week ascending, then weekly revenue descending.
C15_WeeklyCoversTop5 ==
    LET t5 == report.top5_overall
        wk == report.weekly_top5
        ranked(r) == Complete(r) /\ \E i \in DOMAIN t5 : TopKey(t5[i]) = TopKey(r)
    IN  /\ \A j \in DOMAIN wk : \E i \in DOMAIN t5 :
               /\ t5[i].SKUPOS_DESCRIPTION = wk[j].SKUPOS_DESCRIPTION
               /\ t5[i].BRAND = wk[j].BRAND
        /\ \A j \in DOMAIN wk :
               wk[j].weekly_revenue =
                   RevenueOf(report.category_filtered,
                             LAMBDA r : /\ ranked(r)
                                        /\ r.WEEk = Some(wk[j].WEEk)
                                        /\ r.SKUPOS_DESCRIPTION = wk[j].SKUPOS_DESCRIPTION
                                        /\ r.BRAND = wk[j].BRAND)
        /\ \A i \in DOMAIN wk : \A j \in DOMAIN wk :
               i < j => \/ wk[i].WEEk < wk[j].WEEk
                        \/ /\ wk[i].WEEk = wk[j].WEEk
                           /\ wk[i].weekly_revenue >= wk[j].weekly_revenue

\* C16: the revenue per unit of a product group whose summed units is 0 is a
\* sentinel set by a zero-guard: no result of a division by zero (inf, NaN)
\* is in the table shown.
C16_ZeroUnitsGuarded ==
    \A i \in DOMAIN report.top5_overall :
        report.top5_overall[i].avg_price.kind \notin {"inf", "NaN"}

-----------------------------------------------------------------------------
(* Claims about the beverages page *)

\* the revenue threshold a run of the page counts against
ThresholdOf(rep) ==
    IF rep.show_threshold THEN rep.revenue_threshold[1] ELSE 10000

\* C17: the 'Brands Below Threshold' count depends on the revenue threshold
\* alone (10000 when the threshold line is off): two runs of the page on the
\* same filtered data and the same revenue threshold that both show the count
\* show the same count, whatever their minimum transaction counts.
C17_CountIgnoresMinTransactions ==
    [][ ( /\ unified'.filtered_daily = unified.filtered_daily
          /\ ThresholdOf(report') = ThresholdOf(report)
          /\ report.below_threshold # Null
          /\ report'.below_threshold # Null )
            => report'.below_threshold = report.below_threshold ]_vars

-----------------------------------------------------------------------------
(* Claims about the payment page and about all report pages *)

\* the tables have rows and the selected filters leave the page none
NoRows ==
    /\ data.daily # <<>> \/ data.sets.rows # <<>>
    /\ CASE report.page = "top" -> report.top5_overall = <<>>
         [] report.page = "bev" -> report.bev_perf = <<>>
         [] report.page = "pay" -> report.filtered_payments = <<>>
         [] OTHER -> FALSE

\* C11: on a report page, when the selected filters leave no rows, the run
\* ends in a 'no data' state: a warning or an informational message is shown
\* and no unhandled exception is raised.
C11_EmptyIsNoData ==
    NoRows => /\ report.error = "none"
              /\ report.message \in {"warning", "info"}

ProductKey(r) == <<r.SKUPOS_DESCRIPTION, r.CATEGORY>>

\* the rows of payment type p whose product has a category
ProductRowsOf(p) ==
    SelectSeq(report.filtered_payments,
              LAMBDA r : r.PAYMENT_TYPE = Some(p) /\ r.CATEGORY # Null)

\* the number of distinct transactions of payment type p with product k
PurchaseCount(p, k) ==
    Cardinality({r.TRANSACTION_SET_ID :
                    r \in {q \in Range(ProductRowsOf(p)) : ProductKey(q) = k}})

\* the rows top_products_by_payment holds for payment type p
KeptFor(p) ==
    IF Some(p) \in DOMAIN report.top_products_by_payment
    THEN report.top_products_by_payment[Some(p)] ELSE <<>>

\* C18: for each selected payment type on its own, top_products_by_payment
\* holds at most 5 (payment type, product) rows (5 when the type has 5 products
\* or more), they are products of that type with their distinct purchase
\* counts, in non-increasing order of purchase count, and no product of the
\* type left out has a greater count than one kept; the products of another
\* payment type take no row away.
C18_Top5PerPaymentType ==
    /\ DOMAIN report.top_products_by_payment \subseteq
           {Some(p) : p \in report.payment_types}
    /\ \A p \in report.payment_types :
           LET rows == KeptFor(p)
               all == {ProductKey(r) : r \in Range(ProductRowsOf(p))}
               kept == {ProductKey(rows[i]) : i \in DOMAIN rows}
           IN  /\ Len(rows) <= 5
               /\ Len(rows) = IF Cardinality(all) < 5 THEN Cardinality(all) ELSE 5
               /\ kept \subseteq all
               /\ Cardinality(kept) = Len(rows)
               /\ \A i \in DOMAIN rows :
                      /\ rows[i].PAYMENT_TYPE = Some(p)
                      /\ rows[i].purchase_count = PurchaseCount(p, ProductKey(rows[i]))
               /\ \A i \in DOMAIN rows : \A j \in DOMAIN rows :
                      i < j => rows[i].purchase_count >= rows[j].purchase_count
               /\ \A k \in all \ kept : \A i \in DOMAIN rows :
                      PurchaseCount(p, k) <= rows[i].purchase_count

\* cash has more than 5 products and keeps 5; credit keeps its products,
\* which were bought less often than a cash product that is left out
C18_Witness ==
    /\ report.error = "none"
    /\ report.payment_types = {"CASH", "CREDIT"}
    /\ Len(KeptFor("CASH")) = 5
    /\ Len(KeptFor("CREDIT")) > 0
    /\ \E r \in Range(ProductRowsOf("CASH")) :
           /\ \A i \in DOMAIN KeptFor("CASH") :
                  ProductKey(KeptFor("CASH")[i]) # ProductKey(r)
           /\ \A i \in DOMAIN KeptFor("CREDIT") :
                  KeptFor("CREDIT")[i].purchase_count
                      < PurchaseCount("CASH", ProductKey(r))

-----------------------------------------------------------------------------
(* Claims about the pipeline's caches *)

\* the coordinates of the store table
StoreCoords == {stores[i].COORD : i \in DOMAIN stores}

\* C23: the first run of a stage's fetch after Clear Census Cache queries
\* the external API for everything it needs: the geocode loop calls the
\* geocoder for the coordinates of every store, the tract loop calls the ACS
\* API for every tract it requests and the county fetch calls the bulk
\* endpoint; nothing memoised before the clear is reused.
C23_ClearRequeries ==
    /\ obs.geoLoop /\ "geocode" \in obs.refetch => obs.geoCalls = StoreCoords
    /\ obs.acsLoop /\ "tract" \in obs.refetch =>
           obs.acsCalls = Range(obs.acsRequested)
    /\ obs.countyFetch /\ "county" \in obs.refetch => obs.countyCalled

-----------------------------------------------------------------------------
(* Claims about the payment summary *)

\* the filtered transaction sets of payment type p that have an item: one
\* row per transaction set
TicketsOf(p) ==
    LET ids == {report.filtered_payments[i].TRANSACTION_SET_ID :
                   i \in {j \in DOMAIN report.filtered_payments :
                             report.filtered_payments[j].PAYMENT_TYPE = p}}
    IN  SelectSeq(unified.filtered_sets.rows,
                  LAMBDA r : r.TRANSACTION_SET_ID \in ids)

\* C24: for each payment type of payment_summary, num_transactions is the
\* number of distinct filtered transaction sets of the type that have an
\* item, total_spend is the sum of GRAND_TOTAL_AMOUNT over those transaction
\* sets, each counted once, and avg_ticket is total_spend divided by
\* num_transactions.
C24_SummaryPerTransaction ==
    report.page = "pay" =>
        \A g \in report.payment_summary :
            LET tickets == TicketsOf(g.PAYMENT_TYPE)
            IN  /\ g.num_transactions = Len(tickets)
                /\ g.total_spend = SumNonNull(tickets, "GRAND_TOTAL_AMOUNT")
                /\ g.avg_ticket # Null =>
                       g.avg_ticket[1].num * g.num_transactions
                           = g.total_spend * g.avg_ticket[1].den

-----------------------------------------------------------------------------
(* Claims about the stage flags *)

\* C25: a stage flag that is True implies that the stage's result table is
\* in session state and that its cache file exists; and a flag becomes True
\* only in a run that wrote the stage's cache file or read it without an
\* error.
C25_FlagMeansTableAndFile ==
    /\ [](\A s \in Stages :
            Get(ss, StageFlag(s)) =>
                Has(ss, StageDf(s)) /\ Has(files, StageFile(s)))
    /\ [][ \A s \in Stages :
            (~ Get(ss, StageFlag(s)) /\ Get(ss', StageFlag(s))) =>
                /\ Has(files', StageFile(s))
                /\ ss'[StageDf(s)] = files'[StageFile(s)]
                /\ \/ StageFile(s) \in Written(obs')
                   \/ Has(files, StageFile(s)) /\ StageFile(s) \notin obs'.readErrors
      ]_vars

\* a run that loaded the three tables from the cache files of an earlier
\* session
C25_Witness ==
    /\ \A s \in Stages :
          /\ Get(ss, StageFlag(s))
          /\ Has(ss, StageDf(s))
          /\ Has(files, StageFile(s))
          /\ ~ Fetched(obs, s)
    /\ obs.page = "demo"
    /\ obs.rendered \ obs.shown = Stages

\* a run that fetched the county table, wrote its file and set its flag
C25_WitnessWritten ==
    /\ "census_county_acs" \in Written(obs)
    /\ Get(ss, "county_acs_fetched")
    /\ Has(ss, "county_acs_df")
    /\ Has(files, "census_county_acs")

-----------------------------------------------------------------------------
(* Claims about the enrichment join *)

\* the rows of the join's result for the store table's i-th store
RowsOfStore(i) ==
    {j \in DOMAIN obs.stores_with_perf :
        obs.stores_with_perf[j].STORE_ID = stores_df(stores)[i].STORE_ID}

\* the store's tract is in the tract table of session state (a run in which
\* Clear Census Cache is pressed ends without the tables)
HasTractRow(i) ==
    obs.cleared \/
    \E t \in Range(ss["tract_df"]), a \in Range(ss["acs_tract_df"]) :
        /\ t.STORE_ID = stores_df(stores)[i].STORE_ID
        /\ t.TRACT # NULL
        /\ a.STATEFP = t.STATEFP /\ a.COUNTYFP = t.COUNTYFP /\ a.TRACT = t.TRACT

\* the result has one row per store, a store without a tract row has null
\* tract values, and valid_stores holds the rows with both values
OneRowPerStore ==
    /\ Len(obs.stores_with_perf) = Len(stores)
    /\ \A i \in DOMAIN stores :
          /\ Cardinality(RowsOfStore(i)) = 1
          /\ ~ HasTractRow(i) =>
                \A j \in RowsOfStore(i) :
                    /\ obs.stores_with_perf[j].B01003_001E = NULL
                    /\ obs.stores_with_perf[j].B19019_001E = NULL
    /\ Range(obs.valid_stores) =
           {r \in Range(obs.stores_with_perf) :
               r.B01003_001E # NULL /\ r.B19019_001E # NULL}

\* C21: a run that evaluates the enrichment join with the three stage
\* tables in session state gets a result with exactly one row per store of
\* the store table, whatever the number of failed geocodings and tract
\* fetches (every one of them included); a store without tract data has its
\* row with null tract values, and valid_stores holds exactly the rows with
\* non-null population and income.
C21_OneRowPerStore ==
    (obs.joinReached /\ obs.joinMissing = {}) => (obs.joinDone /\ OneRowPerStore)

\* the number an identifier cell stands for, whatever its representation
IdOf(cell) ==
    CASE cell.dtype = "Int64" -> cell.value
      [] cell.dtype = "Float64" -> cell.whole
      [] cell.dtype = "Utf8" ->
           CHOOSE n \in IdNumbers :
               cell.value = ToString(n) \/ cell.value = ToString(n) \o ".0"

\* the filtered daily rows of the store table's i-th store
DailyOfStore(i) ==
    SelectSeq(unified.filtered_daily,
              LAMBDA r : IdOf(r.STORE_ID) = IdOf(stores[i].STORE_ID))

\* C22: the store identifiers of every table are brought to one join key,
\* whether a table writes them 42, 42.0 or as the text of either: no run of
\* the page fails on a cast of STORE_ID, and in the join's result the row of
\* each store has its geocode row's tract and the sums of its own daily
\* rows.
C22_SameJoinKey ==
    obs.page = "demo" =>
        /\ obs.error # "InvalidOperationError"
        /\ obs.joinDone =>
              \A i \in DOMAIN stores :
                  /\ RowsOfStore(i) # {}
                  /\ \A j \in RowsOfStore(i) :
                        LET row == obs.stores_with_perf[j]
                            mine == DailyOfStore(i)
                        IN  /\ row.COORD = stores[i].COORD
                            /\ row.revenue =
                                  IF mine = <<>> THEN Null
                                  ELSE Some(SumNonNull(mine, "TOTAL_REVENUE_AMOUNT"))

=============================================================================
